---- MODULE Spec2Model ----
(***************************************************************************)
(* Resilient transport pipeline of go-bb-pix: the circuit breaker          *)
(* (internal/transport/circuit_breaker.go) and the retry transport         *)
(* (internal/transport/retry.go).                                          *)
(***************************************************************************)
EXTENDS Integers, Sequences, FiniteSets, TLC

\* ---------------------------------------------------------------- bounds
\* Concurrent request flows sharing one CircuitBreakerTransport.
NumFlows == 2
\* RoundTrip calls started on the breaker in one behaviour.
MaxCalls == 5
\* Largest failure threshold (maxFailures) tried.
MaxThreshold == 3
\* Largest resetTimeout tried, in clock ticks.
MaxResetTimeout == 1
\* Last clock tick.
MaxTime == 3

\* Largest maxRetries tried by the retry transport.
MaxRetries == 2

Flows == 1..NumFlows

\* Goroutines calling OAuth2Provider.GetToken concurrently.
NumCallers == 2
\* GetToken calls started on the provider in one behaviour.
MaxGetTokens == 3
\* Invalidate calls in one behaviour.
MaxInvalidations == 1
\* Clock steps of 100 seconds the provider's behaviour spans.
MaxAuthTicks == 4

Callers == 1..NumCallers

\* The values of rand.Float64() tried are n / JitterSteps, n < JitterSteps.
JitterSteps == 4

\* Logical requests sent through the composed pipeline in one behaviour.
MaxRequests == 2

\* DefaultOptions: circuitBreakerMaxFailures.
defaultMaxFailures == 5

\* Requests started by the flows through the auth stage in one behaviour.
MaxFlowStarts == 4

\* Client.PIX / Client.PIXAuto calls started in one behaviour.
MaxAccessorCalls == 6

\* ---------------------------------------------------------------- values
\* An error is its cause chain, outermost first; nil is the empty chain.
NoErr == <<>>
ErrCircuitOpen == <<"circuit breaker is open">>
ErrNetwork == <<"network error">>

\* What an inner sender hands back: (resp, err).  nilResp stands for a nil
\* *http.Response; StatusCode is read only when nilResp is FALSE.
Outcome(nilResp, code, err) == [nilResp |-> nilResp, StatusCode |-> code, err |-> err]
NetFail == Outcome(TRUE, 0, ErrNetwork)
NilNil == Outcome(TRUE, 0, NoErr)
Resp(code) == Outcome(FALSE, code, NoErr)

ErrCanceled == <<"context canceled">>
\* fmt.Errorf("max retries exceeded: %w", lastErr)
\* An exhaustion error that does not wrap the last error (%v for %w).
WrapExhausted_opaque(lastErr) == <<"max retries exceeded">>

WrapExhausted(lastErr) == <<"max retries exceeded">> \o lastErr

BreakerStatuses == {200, 404, 500, 503}
BreakerOutcomes == {NetFail, NilNil} \cup {Resp(c) : c \in BreakerStatuses}

\* expirationThreshold := 5 * time.Minute, in seconds.
expirationThreshold == 300
\* The expires_in of a credential that outlives every behaviour here.
LongValidity == 3600
\* The expires_in values the identity endpoint answers with, in seconds.
ExpiresIns == {60, 600, LongValidity}

\* A nil *Token, and the Token fetch number n yields: its AccessToken is
\* told apart by id; epoch is the number of Invalidate calls that had
\* returned when the fetch was made.
NoToken == [id |-> 0, ExpiresIn |-> 0, IssuedAt |-> 0, epoch |-> 0]
Token(n, expiresIn, issuedAt, e) ==
    [id |-> n, ExpiresIn |-> expiresIn, IssuedAt |-> issuedAt, epoch |-> e]

\* The errors fetchToken returns: a failed Do, a non-200 status, bad JSON.
FetchErrors ==
    {<<"failed to fetch token">> \o ErrNetwork,
     <<"token request failed with status 500">>,
     <<"failed to parse token response", "unexpected end of JSON input">>}

\* circuitState
stateClosed == "closed"
stateOpen == "open"
stateHalfOpen == "half-open"

VARIABLES
    cb,          \* circuitBreaker: state, failureCount, maxFailures, resetTimeout, lastFailTime
    now,         \* the monotonic clock read by time.Now / time.Since
    pc,          \* per flow: "idle" or "inflight" (inside t.base.RoundTrip)
    innerCalls,  \* invocations of the breaker's inner sender
    roundTrips,  \* CircuitBreakerTransport.RoundTrip calls started
    lastRet,     \* the latest (resp, err) a RoundTrip returned, and to which flow
    log,         \* the outcomes recorded so far, "S" or "F", oldest first
    probe,       \* the in-flight flow whose canExecute moved open -> half-open
    lastDone     \* how the latest two finished RoundTrips ended, older first

bvars == <<cb, now, pc, innerCalls, roundTrips, lastRet, log, probe, lastDone>>

VARIABLES
    rt,          \* RetryTransport: maxRetries, and the request's Method
    attempt,     \* the loop variable of RetryTransport.RoundTrip
    rpc,         \* where RoundTrip is: "check", "inflight", "wait" or "done"
    cancelled,   \* req.Context().Done() is closed
    callCount,   \* invocations of the retry transport's inner sender
    got,         \* what each attempt obtained, with the state of its body
    ret          \* what RoundTrip returned: (resp, err), resp taken from attempt `from`

rvars == <<rt, attempt, rpc, cancelled, callCount, got, ret>>

VARIABLES
    clock,         \* time.Now for the token provider, in seconds
    cachedToken,   \* OAuth2Provider.cachedToken
    mu,            \* the caller holding p.mu.Lock() across its fetch, or 0
    tpc,           \* per caller: "idle", "locking" (past the RLock check) or "fetching"
    seen,          \* per caller: id of the expired token its RLock check saw, or 0
    since,         \* per caller: Invalidate calls that had returned when its call began
    fetchCount,    \* token requests sent to the identity endpoint
    calls,         \* GetToken calls started
    returns,       \* GetToken calls returned
    invalidations, \* Invalidate calls returned
    last           \* the latest GetToken return: caller, token, err and the path taken

tvars == <<clock, cachedToken, mu, tpc, seen, since, fetchCount, calls, returns,
           invalidations, last>>

VARIABLES
    at,              \* AuthTransport: tokenProvider (a fixed token or error), developerAppKey
    heap,            \* the http.Header maps, by reference
    areq,            \* the caller's *http.Request: the reference of its Header
    orig,            \* the caller's headers as they were when RoundTrip was called
    apc,             \* where RoundTrip is: "idle", "inner", "done" or "panic"
    fwd,             \* the Header reference of the request handed to t.base, or 0
    baseCalls,       \* invocations of the auth transport's inner sender
    invalidateCount, \* tokenProvider.Invalidate calls
    agot,            \* what the inner sender returned
    aret             \* what RoundTrip returned

avars == <<at, heap, areq, orig, apc, fwd, baseCalls, invalidateCount, agot, aret>>

VARIABLES
    events,      \* the composed pipeline: what has happened for the current request
    requests     \* the composed pipeline: logical requests started

pvars == <<events, requests>>

VARIABLES
    client,      \* bbpix.Client: pixClient and pixAutoClient, 0 for nil
    cmu,         \* the goroutine holding Client.mu, or 0
    kpc,         \* per goroutine: "idle", or the accessor it is inside
    built,       \* sub-clients constructed so far, per accessor
    kret,        \* the instances each accessor has returned so far
    kcalls       \* accessor calls started

kvars == <<client, cmu, kpc, built, kret, kcalls>>

VARIABLES
    bo,          \* RetryTransport: initialBackoff and maxRetries
    battempt,    \* the attempt that has just failed
    waits        \* the backoff waits inserted so far, oldest first

wvars == <<bo, battempt, waits>>

VARIABLES
    fpc,         \* per flow through the auth stage: "idle", "locking", "fetching",
                 \* "sent" or "invalidating"
    held,        \* per flow: the token its request in flight was sent with
    fstarts      \* requests started by the flows

fvars == <<fpc, held, fstarts>>

evars == <<pvars, kvars, wvars, fvars>>

vars == <<bvars, rvars, tvars, avars, evars>>

\* The variables the breaker's steps leave alone, and those the retry
\* transport's steps leave alone.
notBreaker == <<rvars, tvars, avars, evars>>
notRetry == <<bvars, tvars, avars, evars>>
notToken == <<bvars, rvars, avars, evars>>
notAuth == <<bvars, rvars, tvars, evars>>
\* The four transports' own state, left alone by the steps on the Client
\* accessors and on the backoff.
Components == <<bvars, rvars, tvars, avars>>

\* ------------------------------------------------------- circuit breaker
newCircuitBreaker(maxFailures, resetTimeout) ==
    [state |-> stateClosed, failureCount |-> 0, maxFailures |-> maxFailures,
     resetTimeout |-> resetTimeout,
     \* the zero time.Time: further back than any resetTimeout tried
     lastFailTime |-> 0 - MaxResetTimeout - MaxTime - 1]

\* canExecute with the open/half-open boundary off by one (>= for >).
canExecute_early(b, t) ==
    IF b.state = stateOpen /\ t - b.lastFailTime >= b.resetTimeout
    THEN [cb |-> [b EXCEPT !.state = stateHalfOpen], err |-> NoErr]
    ELSE IF b.state = stateOpen THEN [cb |-> b, err |-> ErrCircuitOpen]
    ELSE [cb |-> b, err |-> NoErr]

\* canExecute: the breaker after the call and the error returned; t is time.Now().
canExecute(b, t) ==
    CASE b.state = stateClosed -> [cb |-> b, err |-> NoErr]
      [] b.state = stateOpen ->
            IF t - b.lastFailTime > b.resetTimeout
            THEN [cb |-> [b EXCEPT !.state = stateHalfOpen], err |-> NoErr]
            ELSE [cb |-> b, err |-> ErrCircuitOpen]
      [] b.state = stateHalfOpen -> [cb |-> b, err |-> NoErr]
      [] OTHER -> [cb |-> b, err |-> ErrCircuitOpen]

\* recordSuccess that closes the circuit whatever state it was in.
recordSuccess_alwaysclose(b) ==
    [b EXCEPT !.failureCount = 0, !.state = stateClosed]

\* recordSuccess that forgets to reset the counter.
recordSuccess_keepcount(b) ==
    IF b.state = stateHalfOpen THEN [b EXCEPT !.state = stateClosed] ELSE b

recordSuccess(b) ==
    LET b1 == [b EXCEPT !.failureCount = 0]
    IN  IF b1.state = stateHalfOpen THEN [b1 EXCEPT !.state = stateClosed] ELSE b1

\* recordFailure without the half-open branch: a failed probe leaves the
\* breaker half-open.
recordFailure_nohalfopen(b, t) ==
    LET b1 == [b EXCEPT !.failureCount = @ + 1, !.lastFailTime = t]
    IN  IF b1.state = stateClosed /\ b1.failureCount >= b1.maxFailures
        THEN [b1 EXCEPT !.state = stateOpen]
        ELSE b1

recordFailure(b, t) ==
    LET b1 == [b EXCEPT !.failureCount = @ + 1, !.lastFailTime = t]
    IN  IF b1.state = stateHalfOpen THEN [b1 EXCEPT !.state = stateOpen]
        ELSE IF b1.failureCount >= b1.maxFailures THEN [b1 EXCEPT !.state = stateOpen]
        ELSE b1

\* The classification without the upper end of the 5xx range.
isCircuitBreakerFailure_noupper(o) ==
    o.err # NoErr \/ o.nilResp \/ o.StatusCode >= 500

isCircuitBreakerFailure(o) ==
    IF o.err # NoErr THEN TRUE
    ELSE IF o.nilResp THEN TRUE
    ELSE IF o.StatusCode >= 500 /\ o.StatusCode < 600 THEN TRUE
    ELSE FALSE

NoRet == [flow |-> 0, nilResp |-> TRUE, StatusCode |-> 0, err |-> NoErr]
Ret(f, o) == [flow |-> f, nilResp |-> o.nilResp, StatusCode |-> o.StatusCode, err |-> o.err]

NoRetR == [nilResp |-> TRUE, StatusCode |-> 0, err |-> NoErr, from |-> 0]

\* A retry transport nobody has called.
RetryIdle ==
    /\ rt = [maxRetries |-> 0, method |-> "GET"]
    /\ attempt = 0
    /\ rpc = "check"
    /\ cancelled = FALSE
    /\ callCount = 0
    /\ got = <<>>
    /\ ret = NoRetR

NoLast == [caller |-> 0, token |-> NoToken, err |-> NoErr, path |-> "none"]

\* NewOAuth2Provider: an empty cache and nobody calling.
TokenIdle ==
    /\ clock = 0
    /\ cachedToken = NoToken
    /\ mu = 0
    /\ tpc = [c \in Callers |-> "idle"]
    /\ seen = [c \in Callers |-> 0]
    /\ since = [c \in Callers |-> 0]
    /\ fetchCount = 0
    /\ calls = 0
    /\ returns = 0
    /\ invalidations = 0
    /\ last = NoLast

\* An http.Header with no entries, and the two header references in use:
\* the caller's request and the clone.
NoHeader == [k \in {} |-> <<>>]
Refs == {1, 2}

\* An AuthTransport nobody has called.
AuthIdle ==
    /\ at = [token |-> [TokenType |-> "Bearer", AccessToken |-> "test-token"],
             err |-> NoErr, developerAppKey |-> "test-app-key"]
    /\ heap = [r \in Refs |-> NoHeader]
    /\ areq = [Header |-> 1]
    /\ orig = NoHeader
    /\ apc = "idle"
    /\ fwd = 0
    /\ baseCalls = 0
    /\ invalidateCount = 0
    /\ agot = NilNil
    /\ aret = NilNil

\* Goroutines calling Client.PIX and Client.PIXAuto, and the accessors.
ClientGoroutines == {1, 2, 3}
Accessors == {"PIX", "PIXAuto"}

\* No pipeline request, a Client whose accessors nobody has called, no
\* backoff computed, no flow through the auth stage.
ExtraIdle ==
    /\ events = <<>>
    /\ requests = 0
    /\ client = [a \in Accessors |-> 0]
    /\ cmu = 0
    /\ kpc = [g \in ClientGoroutines |-> [in |-> "none", at |-> "idle"]]
    /\ built = [a \in Accessors |-> 0]
    /\ kret = [a \in Accessors |-> {}]
    /\ kcalls = 0
    /\ bo = [initialBackoff |-> 0, maxRetries |-> 0]
    /\ battempt = 0
    /\ waits = <<>>
    /\ fpc = [f \in Flows |-> "idle"]
    /\ held = [f \in Flows |-> NoToken]
    /\ fstarts = 0

\* A breaker nobody has called yet.
BreakerIdle ==
    /\ cb = newCircuitBreaker(1, 0)
    /\ now = 0
    /\ pc = [f \in Flows |-> "idle"]
    /\ innerCalls = 0
    /\ roundTrips = 0
    /\ lastRet = NoRet
    /\ log = <<>>
    /\ probe = 0
    /\ lastDone = <<"none", "none">>

BreakerInit ==
    /\ RetryIdle
    /\ TokenIdle
    /\ AuthIdle
    /\ ExtraIdle
    /\ \E mf \in 1..MaxThreshold : \E timeout \in 0..MaxResetTimeout :
          cb = newCircuitBreaker(mf, timeout)
    /\ now = 0
    /\ pc = [f \in Flows |-> "idle"]
    /\ innerCalls = 0
    /\ roundTrips = 0
    /\ lastRet = NoRet
    /\ log = <<>>
    /\ probe = 0
    /\ lastDone = <<"none", "none">>

\* RoundTrip up to the point where the inner sender has been invoked:
\* canExecute, then either the early return or t.base.RoundTrip(req).
Start(f) ==
    /\ pc[f] = "idle"
    /\ roundTrips < MaxCalls
    /\ roundTrips' = roundTrips + 1
    /\ LET r == canExecute(cb, now)
       IN  /\ cb' = r.cb
           /\ IF r.err # NoErr
              THEN /\ lastRet' = Ret(f, Outcome(TRUE, 0, r.err))
                   /\ lastDone' = <<lastDone[2], "rejected">>
                   /\ UNCHANGED <<pc, innerCalls, probe>>
              ELSE /\ pc' = [pc EXCEPT ![f] = "inflight"]
                   /\ innerCalls' = innerCalls + 1
                   /\ probe' = IF cb.state = stateOpen THEN f ELSE probe
                   /\ UNCHANGED <<lastRet, lastDone>>
    /\ UNCHANGED <<now, log>>
    /\ UNCHANGED notBreaker

\* The inner sender returns o; the outcome is classified and recorded, and
\* (resp, err) is returned to the caller.
Finish(f, o) ==
    /\ pc[f] = "inflight"
    /\ pc' = [pc EXCEPT ![f] = "idle"]
    /\ IF isCircuitBreakerFailure(o)
       THEN /\ cb' = recordFailure(cb, now)
            /\ log' = Append(log, "F")
            /\ lastDone' = <<lastDone[2], IF probe = f THEN "probeFail" ELSE "fail">>
       ELSE /\ cb' = recordSuccess(cb)
            /\ log' = Append(log, "S")
            /\ lastDone' = <<lastDone[2], IF probe = f THEN "probeOK" ELSE "ok">>
    /\ probe' = IF probe = f THEN 0 ELSE probe
    /\ lastRet' = Ret(f, o)
    /\ UNCHANGED <<now, innerCalls, roundTrips>>
    /\ UNCHANGED notBreaker

\* The clock advances.
Tick ==
    /\ now < MaxTime
    /\ now' = now + 1
    /\ UNCHANGED <<cb, pc, innerCalls, roundTrips, lastRet, log, probe, lastDone>>
    /\ UNCHANGED notBreaker

BreakerNext ==
    \/ \E f \in Flows : Start(f)
    \/ \E f \in Flows : \E o \in BreakerOutcomes : Finish(f, o)
    \/ Tick

\* Concurrent flows on one CircuitBreakerTransport.
SpecBreaker == BreakerInit /\ [][BreakerNext]_vars

AllIdle == \A f \in Flows : pc[f] = "idle"

\* A call issued only after the previous one has returned.
SeqStart(f) == AllIdle /\ Start(f)

BreakerSeqNext ==
    \/ \E f \in Flows : SeqStart(f)
    \/ \E f \in Flows : \E o \in BreakerOutcomes : Finish(f, o)
    \/ Tick

\* Calls on one CircuitBreakerTransport issued one after another.
SpecBreakerSeq == BreakerInit /\ [][BreakerSeqNext]_vars

\* The outcomes tried on the classification, around both ends of 5xx.
ClassifyStatuses == {100, 200, 301, 400, 401, 404, 429, 499, 500, 503, 599, 600}
ClassifyOutcomes ==
    {NetFail, NilNil, Outcome(FALSE, 200, ErrNetwork)}
    \cup {Resp(c) : c \in ClassifyStatuses}

ClassifyNext ==
    \/ SeqStart(1)
    \/ \E o \in ClassifyOutcomes : Finish(1, o)
    \/ Tick

\* One caller at a time on a CircuitBreakerTransport whose inner sender
\* answers with any status.
SpecClassify == BreakerInit /\ [][ClassifyNext]_vars

\* ----------------------------------------- circuit breaker, for ever
\* The breaker under calls that never stop arriving.  The state is kept
\* finite without changing what the breaker does: the counters of calls
\* and the log of outcomes are left alone, failureCount stops at
\* maxFailures (it is only ever compared with it), and time passes by
\* lastFailTime moving back, which makes time.Since(lastFailTime) grow as
\* it would, until it has passed resetTimeout (it is only ever compared
\* with it).
LiveThresholds == {1, 2}
LiveTimeouts == {0, 1}
LiveOutcomes == {NetFail, Resp(200), Resp(503)}

BreakerLiveInit ==
    /\ RetryIdle
    /\ TokenIdle
    /\ AuthIdle
    /\ ExtraIdle
    /\ \E mf \in LiveThresholds : \E timeout \in LiveTimeouts :
          cb = newCircuitBreaker(mf, timeout)
    /\ now = 0
    /\ pc = [f \in Flows |-> "idle"]
    /\ innerCalls = 0
    /\ roundTrips = 0
    /\ lastRet = NoRet
    /\ log = <<>>
    /\ probe = 0
    /\ lastDone = <<"none", "none">>

Saturate(b) ==
    IF b.failureCount > b.maxFailures THEN [b EXCEPT !.failureCount = b.maxFailures]
    ELSE b

\* RoundTrip up to the early return or the call of the inner sender.
L_Start(f) ==
    /\ pc[f] = "idle"
    /\ LET r == canExecute(cb, now)
       IN  /\ cb' = r.cb
           /\ IF r.err # NoErr
              THEN /\ lastRet' = Ret(f, Outcome(TRUE, 0, r.err))
                   /\ lastDone' = <<lastDone[2], "rejected">>
                   /\ UNCHANGED <<pc, probe>>
              ELSE /\ pc' = [pc EXCEPT ![f] = "inflight"]
                   /\ probe' = IF cb.state = stateOpen THEN f ELSE probe
                   /\ UNCHANGED <<lastRet, lastDone>>
    /\ UNCHANGED <<now, log, innerCalls, roundTrips>>
    /\ UNCHANGED notBreaker

\* The inner sender returns o; the outcome is classified and recorded.
L_Finish(f, o) ==
    /\ pc[f] = "inflight"
    /\ pc' = [pc EXCEPT ![f] = "idle"]
    /\ IF isCircuitBreakerFailure(o)
       THEN /\ cb' = Saturate(recordFailure(cb, now))
            /\ lastDone' = <<lastDone[2], IF probe = f THEN "probeFail" ELSE "fail">>
       ELSE /\ cb' = recordSuccess(cb)
            /\ lastDone' = <<lastDone[2], IF probe = f THEN "probeOK" ELSE "ok">>
    /\ probe' = IF probe = f THEN 0 ELSE probe
    /\ lastRet' = Ret(f, o)
    /\ UNCHANGED <<now, log, innerCalls, roundTrips>>
    /\ UNCHANGED notBreaker

\* The clock advances.
L_Tick ==
    /\ now - cb.lastFailTime <= cb.resetTimeout
    /\ cb' = [cb EXCEPT !.lastFailTime = @ - 1]
    /\ UNCHANGED <<now, pc, innerCalls, roundTrips, lastRet, log, probe, lastDone>>
    /\ UNCHANGED notBreaker

BreakerLiveNext ==
    \/ \E f \in Flows : L_Start(f)
    \/ \E f \in Flows : \E o \in LiveOutcomes : L_Finish(f, o)
    \/ L_Tick

\* Calls keep arriving, every admitted call returns, and time passes.
BreakerFairness ==
    /\ WF_vars(\E f \in Flows : L_Start(f))
    /\ \A f \in Flows : WF_vars(\E o \in LiveOutcomes : L_Finish(f, o))
    /\ WF_vars(L_Tick)

SpecBreakerLive == BreakerLiveInit /\ [][BreakerLiveNext]_vars /\ BreakerFairness

\* ------------------------------------------------------- retry transport
Methods == {"GET", "HEAD", "OPTIONS", "PUT", "DELETE", "POST", "PATCH", "TRACE"}
RetryStatuses == {200, 400, 401, 404, 429, 500, 502, 503, 504}

\* What the retry transport's inner sender hands back: (resp, err) and, for
\* a response, whether it has a Body ("open") or a nil Body ("none").
RetryOutcome(nilResp, code, err, body) ==
    [nilResp |-> nilResp, StatusCode |-> code, err |-> err, body |-> body]
RetryOutcomes ==
    {RetryOutcome(TRUE, 0, ErrNetwork, "none"), RetryOutcome(TRUE, 0, NoErr, "none"),
     RetryOutcome(FALSE, 503, NoErr, "none"), RetryOutcome(FALSE, 503, ErrNetwork, "open")}
    \cup {RetryOutcome(FALSE, c, NoErr, "open") : c \in RetryStatuses}

\* isIdempotent that lets every method through.
isIdempotent_all(method) == TRUE

\* isIdempotent that lets no method through.
isIdempotent_none(method) == FALSE

isIdempotent(method) ==
    method \in {"GET", "HEAD", "OPTIONS", "PUT", "DELETE"}

\* shouldRetry that also retries 500 Internal Server Error.
shouldRetry_500(nilResp, code, err) ==
    err # NoErr \/ nilResp \/ code \in {429, 500, 502, 503, 504}

\* shouldRetry(resp, err), resp given as (nilResp, StatusCode).
shouldRetry(nilResp, code, err) ==
    IF err # NoErr THEN TRUE
    ELSE IF nilResp THEN TRUE
    ELSE code \in {429, 502, 503, 504}

\* The retry branch without resp.Body.Close().
CloseBody_skip(o) == o

\* if resp != nil && resp.Body != nil { resp.Body.Close() }
CloseBody(o) ==
    IF ~o.nilResp /\ o.body # "none" THEN [o EXCEPT !.body = "closed"] ELSE o

\* return resp, err with resp obtained in attempt number n
Return(o, err, n) ==
    [nilResp |-> o.nilResp, StatusCode |-> o.StatusCode, err |-> err,
     from |-> IF o.nilResp THEN 0 ELSE n]
\* return nil, err
ReturnErr(err) == [nilResp |-> TRUE, StatusCode |-> 0, err |-> err, from |-> 0]

\* The statements after the loop: resp and lastErr are the last attempt's.
AfterLoop(o, n) ==
    IF o.err # NoErr THEN ReturnErr(WrapExhausted(o.err)) ELSE Return(o, NoErr, n)

RetryInit ==
    /\ BreakerIdle
    /\ TokenIdle
    /\ AuthIdle
    /\ ExtraIdle
    /\ \E r \in (0 - 1)..MaxRetries : \E m \in Methods :
          rt = [maxRetries |-> r, method |-> m]
    /\ attempt = 0
    /\ rpc = "check"
    /\ cancelled = FALSE
    /\ callCount = 0
    /\ got = <<>>
    /\ ret = NoRetR

\* Top of the loop without the context check.
Begin_nocheck ==
    /\ rpc = "check"
    /\ IF attempt > rt.maxRetries
       THEN /\ rpc' = "done"
            /\ ret' = ReturnErr(NoErr)
            /\ UNCHANGED callCount
       ELSE /\ rpc' = "inflight"
            /\ callCount' = callCount + 1
            /\ UNCHANGED ret
    /\ UNCHANGED <<rt, attempt, cancelled, got>>
    /\ UNCHANGED notRetry

\* Top of the loop: the loop condition, the context check, and the call of
\* t.base.RoundTrip(req).  With maxRetries < 0 the loop body never runs and
\* the statements after the loop return the nil resp and nil lastErr.
Begin ==
    /\ rpc = "check"
    /\ IF attempt > rt.maxRetries
       THEN /\ rpc' = "done"
            /\ ret' = ReturnErr(NoErr)
            /\ UNCHANGED callCount
       ELSE IF cancelled
       THEN /\ rpc' = "done"
            /\ ret' = ReturnErr(ErrCanceled)
            /\ UNCHANGED callCount
       ELSE /\ rpc' = "inflight"
            /\ callCount' = callCount + 1
            /\ UNCHANGED ret
    /\ UNCHANGED <<rt, attempt, cancelled, got>>
    /\ UNCHANGED notRetry

\* The inner sender returns o: return it, or close its body and go on to
\* the backoff wait, or (last attempt) leave the loop and return.
InnerReturns(o) ==
    /\ rpc = "inflight"
    /\ IF o.err = NoErr /\ ~shouldRetry(o.nilResp, o.StatusCode, NoErr)
       THEN /\ got' = Append(got, o)
            /\ rpc' = "done"
            /\ ret' = Return(o, NoErr, callCount)
            /\ UNCHANGED attempt
       ELSE IF shouldRetry(o.nilResp, o.StatusCode, o.err) /\ isIdempotent(rt.method)
       THEN /\ got' = Append(got, CloseBody(o))
            /\ IF attempt < rt.maxRetries
               THEN /\ rpc' = "wait"
                    /\ UNCHANGED <<attempt, ret>>
               ELSE /\ attempt' = attempt + 1
                    /\ rpc' = "done"
                    /\ ret' = AfterLoop(o, callCount)
       ELSE /\ got' = Append(got, o)
            /\ rpc' = "done"
            /\ ret' = Return(o, o.err, callCount)
            /\ UNCHANGED attempt
    /\ UNCHANGED <<rt, cancelled, callCount>>
    /\ UNCHANGED notRetry

\* The backoff timer fires (case <-time.After(backoff)); select may take
\* this case even when the context is done as well.
WaitDone ==
    /\ rpc = "wait"
    /\ attempt' = attempt + 1
    /\ rpc' = "check"
    /\ UNCHANGED <<rt, cancelled, callCount, got, ret>>
    /\ UNCHANGED notRetry

\* The context is done during the backoff wait (case <-req.Context().Done()).
WaitCancelled ==
    /\ rpc = "wait"
    /\ cancelled
    /\ rpc' = "done"
    /\ ret' = ReturnErr(ErrCanceled)
    /\ UNCHANGED <<rt, attempt, cancelled, callCount, got>>
    /\ UNCHANGED notRetry

\* The caller cancels the request's context.
Cancel ==
    /\ rpc # "done"
    /\ ~cancelled
    /\ cancelled' = TRUE
    /\ UNCHANGED <<rt, attempt, rpc, callCount, got, ret>>
    /\ UNCHANGED notRetry

RetryNext ==
    \/ Begin
    \/ \E o \in RetryOutcomes : InnerReturns(o)
    \/ WaitDone
    \/ WaitCancelled
    \/ Cancel

\* One RoundTrip of a RetryTransport over an arbitrary inner sender.
SpecRetry == RetryInit /\ [][RetryNext]_vars

\* ------------------------------------------------------- token provider
\* Token.IsExpired with the 5-minute margin replaced by the nominal expiry.
IsExpired_nominal(tok, t) ==
    IF tok = NoToken THEN TRUE
    ELSE (tok.IssuedAt + tok.ExpiresIn) - t < 0

\* Token.IsExpired that also expires a token with exactly the margin left.
IsExpired_inclusive(tok, t) ==
    IF tok = NoToken THEN TRUE
    ELSE (tok.IssuedAt + tok.ExpiresIn) - t <= expirationThreshold

\* Token.IsExpired at time t: nil is expired; otherwise
\* time.Until(IssuedAt + ExpiresIn seconds) < expirationThreshold.
IsExpired(tok, t) ==
    IF tok = NoToken THEN TRUE
    ELSE (tok.IssuedAt + tok.ExpiresIn) - t < expirationThreshold

\* The check under RLock: p.cachedToken != nil && !p.cachedToken.IsExpired()
cacheHit(tok, t) == tok # NoToken /\ ~IsExpired(tok, t)

\* The double-check that never finds the token another caller stored.
cacheHitLocked_never(tok, t) == FALSE
\* The double-check that only looks whether a token is stored.
cacheHitLocked_present(tok, t) == tok # NoToken

\* The double-check after acquiring the write lock.
cacheHitLocked(tok, t) == tok # NoToken /\ ~IsExpired(tok, t)

\* return token, err of GetToken by caller c
TRet(c, tok, err, path) == [caller |-> c, token |-> tok, err |-> err, path |-> path]

TokenInit ==
    /\ BreakerIdle
    /\ RetryIdle
    /\ AuthIdle
    /\ ExtraIdle
    /\ TokenIdle

\* GetToken up to the end of the read-locked fast path: return the cached
\* token, or release the read lock and go on to p.mu.Lock().
GetTokenFast(c) ==
    /\ tpc[c] = "idle"
    /\ mu = 0
    /\ calls < MaxGetTokens
    /\ calls' = calls + 1
    /\ since' = [since EXCEPT ![c] = invalidations]
    /\ IF cacheHit(cachedToken, clock)
       THEN /\ last' = TRet(c, cachedToken, NoErr, "cached")
            /\ returns' = returns + 1
            /\ seen' = [seen EXCEPT ![c] = 0]
            /\ UNCHANGED tpc
       ELSE /\ tpc' = [tpc EXCEPT ![c] = "locking"]
            /\ seen' = [seen EXCEPT ![c] = cachedToken.id]
            /\ UNCHANGED <<last, returns>>
    /\ UNCHANGED <<clock, cachedToken, mu, fetchCount, invalidations>>
    /\ UNCHANGED notToken

\* GetToken that takes the write lock without waiting for its holder.
GetTokenLocked_nolock(c) ==
    /\ tpc[c] = "locking"
    /\ IF cacheHitLocked(cachedToken, clock)
       THEN /\ last' = TRet(c, cachedToken, NoErr, "recheck")
            /\ returns' = returns + 1
            /\ tpc' = [tpc EXCEPT ![c] = "idle"]
            /\ UNCHANGED <<mu, fetchCount>>
       ELSE /\ mu' = c
            /\ fetchCount' = fetchCount + 1
            /\ tpc' = [tpc EXCEPT ![c] = "fetching"]
            /\ UNCHANGED <<last, returns>>
    /\ UNCHANGED <<clock, cachedToken, seen, since, calls, invalidations>>
    /\ UNCHANGED notToken

\* p.mu.Lock() is granted and the double-check runs: return the token a
\* racing caller stored, or keep the lock and send the token request.
GetTokenLocked(c) ==
    /\ tpc[c] = "locking"
    /\ mu = 0
    /\ IF cacheHitLocked(cachedToken, clock)
       THEN /\ last' = TRet(c, cachedToken, NoErr, "recheck")
            /\ returns' = returns + 1
            /\ tpc' = [tpc EXCEPT ![c] = "idle"]
            /\ UNCHANGED <<mu, fetchCount>>
       ELSE /\ mu' = c
            /\ fetchCount' = fetchCount + 1
            /\ tpc' = [tpc EXCEPT ![c] = "fetching"]
            /\ UNCHANGED <<last, returns>>
    /\ UNCHANGED <<clock, cachedToken, seen, since, calls, invalidations>>
    /\ UNCHANGED notToken

\* fetchToken succeeds with expires_in = e: the token is stamped with
\* time.Now(), stored, returned, and the deferred Unlock runs.
FetchOK(c, e) ==
    /\ tpc[c] = "fetching"
    /\ LET token == Token(fetchCount, e, clock, invalidations) IN
          /\ cachedToken' = token
          /\ last' = TRet(c, token, NoErr, "fetched")
    /\ returns' = returns + 1
    /\ mu' = 0
    /\ tpc' = [tpc EXCEPT ![c] = "idle"]
    /\ UNCHANGED <<clock, seen, since, fetchCount, calls, invalidations>>
    /\ UNCHANGED notToken

\* The failure path that also drops the stored token.
FetchFails_clear(c, err) ==
    /\ tpc[c] = "fetching"
    /\ last' = TRet(c, NoToken, err, "fetched")
    /\ cachedToken' = NoToken
    /\ returns' = returns + 1
    /\ mu' = 0
    /\ tpc' = [tpc EXCEPT ![c] = "idle"]
    /\ UNCHANGED <<clock, seen, since, fetchCount, calls, invalidations>>
    /\ UNCHANGED notToken

\* fetchToken fails: return nil, err; p.cachedToken is not assigned.
FetchFails(c, err) ==
    /\ tpc[c] = "fetching"
    /\ last' = TRet(c, NoToken, err, "fetched")
    /\ returns' = returns + 1
    /\ mu' = 0
    /\ tpc' = [tpc EXCEPT ![c] = "idle"]
    /\ UNCHANGED <<clock, cachedToken, seen, since, fetchCount, calls, invalidations>>
    /\ UNCHANGED notToken

\* Invalidate that drops the token only once it has expired.
Invalidate_keepvalid ==
    /\ mu = 0
    /\ invalidations < MaxInvalidations
    /\ cachedToken' = IF IsExpired(cachedToken, clock) THEN NoToken ELSE cachedToken
    /\ invalidations' = invalidations + 1
    /\ UNCHANGED <<clock, mu, tpc, seen, since, fetchCount, calls, returns, last>>
    /\ UNCHANGED notToken

\* Invalidate: p.mu.Lock(); p.cachedToken = nil; Unlock.
Invalidate ==
    /\ mu = 0
    /\ invalidations < MaxInvalidations
    /\ cachedToken' = NoToken
    /\ invalidations' = invalidations + 1
    /\ UNCHANGED <<clock, mu, tpc, seen, since, fetchCount, calls, returns, last>>
    /\ UNCHANGED notToken

\* 100 seconds pass.
TokenTick ==
    /\ clock < 100 * MaxAuthTicks
    /\ clock' = clock + 100
    /\ UNCHANGED <<cachedToken, mu, tpc, seen, since, fetchCount, calls, returns,
                   invalidations, last>>
    /\ UNCHANGED notToken

TokenNext ==
    \/ \E c \in Callers : GetTokenFast(c)
    \/ \E c \in Callers : GetTokenLocked(c)
    \/ \E c \in Callers : \E e \in ExpiresIns : FetchOK(c, e)
    \/ \E c \in Callers : \E err \in FetchErrors : FetchFails(c, err)
    \/ Invalidate
    \/ TokenTick

\* One OAuth2Provider used by concurrent callers while time passes.
SpecToken == TokenInit /\ [][TokenNext]_vars

\* ------------------------------------------------------- auth transport
\* The tokens and errors the token provider hands out, the configured
\* application keys, and the headers a caller may have set.
AuthTokens ==
    {[TokenType |-> "Bearer", AccessToken |-> "test-access-token"],
     [TokenType |-> "", AccessToken |-> "test-token"],
     [TokenType |-> "MAC", AccessToken |-> "t0"]}
ProviderErrors == {<<"token fetch failed">>} \cup FetchErrors
AppKeys == {"test-app-key", ""}
CallerKeys == {"Content-Type", "Accept", "Authorization", "Gw-Dev-App-Key"}
CallerValue(k) ==
    CASE k = "Content-Type" -> <<"application/json">>
      [] k = "Accept" -> <<"application/json", "text/plain">>
      [] k = "Authorization" -> <<"Basic Y2FsbGVy">>
      [] OTHER -> <<"caller-key">>
CallerHeaders == {[k \in K |-> CallerValue(k)] : K \in SUBSET CallerKeys}

AuthStatuses == {200, 401, 403, 500}
AuthOutcomes ==
    {NetFail, NilNil, Outcome(FALSE, 401, ErrNetwork)}
    \cup {Resp(c) : c \in AuthStatuses}

\* textproto.CanonicalMIMEHeaderKey for the keys RoundTrip sets.
CanonicalKey(k) ==
    CASE k = "gw-dev-app-key" -> "Gw-Dev-App-Key"
      [] OTHER -> k

\* http.Header.Set(key, value)
HeaderSet(h, key, value) ==
    [k \in DOMAIN h \cup {CanonicalKey(key)} |->
        IF k = CanonicalKey(key) THEN <<value>> ELSE h[k]]

\* The Authorization value that always uses the Bearer scheme.
AuthorizationValue_bearer(token) == "Bearer " \o token.AccessToken

\* fmt.Sprintf("%s %s", token.TokenType, token.AccessToken)
AuthorizationValue(token) == token.TokenType \o " " \o token.AccessToken

\* The wrapping done with %v: the provider's error is no longer a cause.
WrapAuth_opaque(err) == <<"failed to get auth token">>

\* fmt.Errorf("failed to get auth token: %w", err)
WrapAuth(err) == <<"failed to get auth token">> \o err

\* resp.StatusCode == http.StatusUnauthorized, widened to 403.
isUnauthorized_403(code) == code \in {401, 403}

isUnauthorized(code) == code = 401

\* cloneRequest without the header copy: *r = *req only.
cloneRequest_shallow(hp, req) == [heap |-> hp, req |-> req]

\* cloneRequest: a copy of the request struct whose Header is a new map
\* holding a copy of every value slice.
cloneRequest(hp, req) ==
    [heap |-> [hp EXCEPT ![2] = [k \in DOMAIN hp[req.Header] |-> hp[req.Header][k]]],
     req |-> [req EXCEPT !.Header = 2]]

AuthInit ==
    /\ BreakerIdle
    /\ RetryIdle
    /\ TokenIdle
    /\ ExtraIdle
    /\ \E tok \in AuthTokens : \E e \in {NoErr} \cup ProviderErrors : \E key \in AppKeys :
          at = [token |-> tok, err |-> e, developerAppKey |-> key]
    /\ \E h \in CallerHeaders :
          /\ heap = [r \in Refs |-> IF r = 1 THEN h ELSE NoHeader]
          /\ orig = h
    /\ areq = [Header |-> 1]
    /\ apc = "idle"
    /\ fwd = 0
    /\ baseCalls = 0
    /\ invalidateCount = 0
    /\ agot = NilNil
    /\ aret = NilNil

\* RoundTrip up to the call of t.base.RoundTrip: GetToken, then either
\* the early return or the clone, the two Header.Set and the inner call.
AuthStart ==
    /\ apc = "idle"
    /\ IF at.err # NoErr
       THEN /\ aret' = Outcome(TRUE, 0, WrapAuth(at.err))
            /\ apc' = "done"
            /\ UNCHANGED <<heap, fwd, baseCalls>>
       ELSE LET c == cloneRequest(heap, areq)
                h1 == HeaderSet(c.heap[c.req.Header], "Authorization",
                                AuthorizationValue(at.token))
                h2 == HeaderSet(h1, "gw-dev-app-key", at.developerAppKey)
            IN /\ heap' = [c.heap EXCEPT ![c.req.Header] = h2]
               /\ fwd' = c.req.Header
               /\ baseCalls' = baseCalls + 1
               /\ apc' = "inner"
               /\ UNCHANGED aret
    /\ UNCHANGED <<at, areq, orig, invalidateCount, agot>>
    /\ UNCHANGED notAuth

\* The inner sender returns o: an error is passed on, a nil response
\* with a nil error makes resp.StatusCode panic, a 401 invalidates the
\* token, and the response is returned.
AuthInnerReturns(o) ==
    /\ apc = "inner"
    /\ agot' = o
    /\ IF o.err # NoErr
       THEN /\ aret' = Outcome(TRUE, 0, o.err)
            /\ apc' = "done"
            /\ UNCHANGED invalidateCount
       ELSE IF o.nilResp
       THEN /\ apc' = "panic"
            /\ UNCHANGED <<aret, invalidateCount>>
       ELSE /\ invalidateCount' =
                  IF isUnauthorized(o.StatusCode) THEN invalidateCount + 1
                  ELSE invalidateCount
            /\ aret' = o
            /\ apc' = "done"
    /\ UNCHANGED <<at, heap, areq, orig, fwd, baseCalls>>
    /\ UNCHANGED notAuth

AuthNext ==
    \/ AuthStart
    \/ \E o \in AuthOutcomes : AuthInnerReturns(o)

\* One RoundTrip of an AuthTransport over a token provider that answers
\* with a fixed token or error, and an arbitrary inner sender.
SpecAuth == AuthInit /\ [][AuthNext]_vars

\* ---------------------------------------------------------------- backoff
\* math.Pow(2, attempt) for attempt >= 0
RECURSIVE Pow2(_)
Pow2(k) == IF k = 0 THEN 1 ELSE 2 * Pow2(k - 1)

\* The initialBackoff values tried, in nanoseconds.
InitialBackoffs == {0, 1, 2, 4, 10}

\* A backoff that does not grow with the attempt.
calculateBackoff_constant(initialBackoff, k, n) ==
    (initialBackoff * (3 * JitterSteps + 2 * n)) \div (4 * JitterSteps)

\* calculateBackoff(attempt) when rand.Float64() returns n / JitterSteps:
\* initialBackoff * 2^attempt * (0.75 + 0.5 * n / JitterSteps), converted
\* to a time.Duration, which drops the fraction of a nanosecond.
calculateBackoff(initialBackoff, k, n) ==
    (initialBackoff * Pow2(k) * (3 * JitterSteps + 2 * n)) \div (4 * JitterSteps)

BackoffInit ==
    /\ BreakerIdle
    /\ RetryIdle
    /\ TokenIdle
    /\ AuthIdle
    /\ events = <<>>
    /\ requests = 0
    /\ client = [a \in Accessors |-> 0]
    /\ cmu = 0
    /\ kpc = [g \in ClientGoroutines |-> [in |-> "none", at |-> "idle"]]
    /\ built = [a \in Accessors |-> 0]
    /\ kret = [a \in Accessors |-> {}]
    /\ kcalls = 0
    /\ \E b \in InitialBackoffs : \E r \in 0..MaxRetries :
          bo = [initialBackoff |-> b, maxRetries |-> r]
    /\ battempt = 0
    /\ waits = <<>>
    /\ fpc = [f \in Flows |-> "idle"]
    /\ held = [f \in Flows |-> NoToken]
    /\ fstarts = 0

\* An attempt that is not the last one ends in a retryable outcome: the
\* backoff is computed and waited for, and the loop goes round.
AttemptFails(n) ==
    /\ battempt < bo.maxRetries
    /\ waits' = Append(waits, calculateBackoff(bo.initialBackoff, battempt, n))
    /\ battempt' = battempt + 1
    /\ UNCHANGED bo
    /\ UNCHANGED <<Components, pvars, kvars, fvars>>

\* The last permitted attempt ends in a retryable outcome: the loop is
\* left without a wait.
LastAttemptFails ==
    /\ battempt = bo.maxRetries
    /\ battempt' = battempt + 1
    /\ UNCHANGED <<bo, waits>>
    /\ UNCHANGED <<Components, pvars, kvars, fvars>>

BackoffNext ==
    \/ \E n \in 0..(JitterSteps - 1) : AttemptFails(n)
    \/ LastAttemptFails

\* The waits of one RoundTrip whose every attempt ends in a retryable outcome.
SpecBackoff == BackoffInit /\ [][BackoffNext]_vars

\* ------------------------------------------------- the composed pipeline
\* buildHTTPClient: base -> circuit breaker -> retry -> auth -> logging.
\* The logging stage returns what the auth stage returned, unchanged.
PipelineMethods == {"GET", "POST"}
PipelineStatuses == {200, 401, 503}
PipelineOutcomes ==
    {RetryOutcome(TRUE, 0, ErrNetwork, "none")}
    \cup {RetryOutcome(FALSE, c, NoErr, "open") : c \in PipelineStatuses}
PipelineThresholds == {1, defaultMaxFailures}
\* WithRetry is not validated: a negative count, none, and two retries.
PipelineRetries == {0 - 1, 0, 2}
\* What GetToken answers: a token (no error) or a failed fetch.
PipelineProviderAnswers == {NoErr, <<"token fetch failed">>}

\* An admission check made for the first attempt of a request only, as if
\* the breaker were wrapped around the retry stage.
Admit_outer(b, t, k) ==
    IF k = 0 THEN canExecute(b, t) ELSE [cb |-> b, err |-> NoErr]

\* The admission check of attempt k: the retry stage calls the breaker
\* stage's RoundTrip, which starts with canExecute.
Admit(b, t, k) == canExecute(b, t)

PipelineInit ==
    /\ TokenIdle
    /\ AuthIdle
    /\ ExtraIdle
    /\ \E mf \in PipelineThresholds : \E timeout \in 0..MaxResetTimeout :
          cb = newCircuitBreaker(mf, timeout)
    /\ now = 0
    /\ pc = [f \in Flows |-> "idle"]
    /\ innerCalls = 0
    /\ roundTrips = 0
    /\ lastRet = NoRet
    /\ log = <<>>
    /\ probe = 0
    /\ lastDone = <<"none", "none">>
    /\ \E r \in PipelineRetries : \E m \in PipelineMethods :
          rt = [maxRetries |-> r, method |-> m]
    /\ attempt = 0
    /\ rpc = "check"
    /\ cancelled = FALSE
    /\ callCount = 0
    /\ got = <<>>
    /\ ret = NoRetR

\* The retry stage's handling of what its inner sender (the breaker stage)
\* returned for the current attempt.
P_Decide(o, n) ==
    IF o.err = NoErr /\ ~shouldRetry(o.nilResp, o.StatusCode, NoErr)
    THEN /\ got' = Append(got, o)
         /\ rpc' = "done"
         /\ ret' = Return(o, NoErr, n)
         /\ UNCHANGED attempt
    ELSE IF shouldRetry(o.nilResp, o.StatusCode, o.err) /\ isIdempotent(rt.method)
    THEN /\ got' = Append(got, CloseBody(o))
         /\ IF attempt < rt.maxRetries
            THEN /\ rpc' = "wait"
                 /\ UNCHANGED <<attempt, ret>>
            ELSE /\ attempt' = attempt + 1
                 /\ rpc' = "done"
                 /\ ret' = AfterLoop(o, n)
    ELSE /\ got' = Append(got, o)
         /\ rpc' = "done"
         /\ ret' = Return(o, o.err, n)
         /\ UNCHANGED attempt

\* The caller sends a request: the logging stage calls the auth stage,
\* which asks the provider for a token (it answers perr, or a token) and,
\* given a token, calls the retry stage.
P_Start(perr) ==
    /\ apc \in {"idle", "done"}
    /\ requests < MaxRequests
    /\ requests' = requests + 1
    /\ events' = <<"token">>
    /\ at' = [at EXCEPT !.err = perr]
    /\ attempt' = 0
    /\ rpc' = "check"
    /\ cancelled' = FALSE
    /\ callCount' = 0
    /\ got' = <<>>
    /\ ret' = NoRetR
    /\ agot' = NilNil
    /\ IF perr # NoErr
       THEN /\ aret' = Outcome(TRUE, 0, WrapAuth(perr))
            /\ apc' = "done"
            /\ UNCHANGED baseCalls
       ELSE /\ baseCalls' = baseCalls + 1
            /\ apc' = "inner"
            /\ aret' = NilNil
    /\ UNCHANGED <<rt, heap, areq, orig, fwd, invalidateCount>>
    /\ UNCHANGED <<bvars, tvars, kvars, wvars, fvars>>

\* Top of the retry loop: the loop condition and the context check, then
\* the breaker stage's RoundTrip up to its early return or to the call of
\* the base sender.
P_Begin ==
    /\ apc = "inner"
    /\ rpc = "check"
    /\ IF attempt > rt.maxRetries
       THEN /\ rpc' = "done"
            /\ ret' = ReturnErr(NoErr)
            /\ UNCHANGED <<attempt, callCount, got, cb, pc, innerCalls, roundTrips,
                           events>>
       ELSE IF cancelled
       THEN /\ rpc' = "done"
            /\ ret' = ReturnErr(ErrCanceled)
            /\ UNCHANGED <<attempt, callCount, got, cb, pc, innerCalls, roundTrips,
                           events>>
       ELSE LET r == Admit(cb, now, attempt) IN
            /\ callCount' = callCount + 1
            /\ roundTrips' = roundTrips + 1
            /\ cb' = r.cb
            /\ IF r.err # NoErr
               THEN /\ events' = Append(events, "reject")
                    /\ P_Decide(RetryOutcome(TRUE, 0, r.err, "none"), callCount + 1)
                    /\ UNCHANGED <<pc, innerCalls>>
               ELSE /\ events' = Append(events, "admit")
                    /\ pc' = [pc EXCEPT ![1] = "inflight"]
                    /\ innerCalls' = innerCalls + 1
                    /\ rpc' = "inflight"
                    /\ UNCHANGED <<attempt, got, ret>>
    /\ UNCHANGED <<rt, cancelled, now, lastRet, log, probe, lastDone>>
    /\ UNCHANGED <<avars, tvars, requests, kvars, wvars, fvars>>

\* The base sender returns o: the breaker stage classifies and records
\* it and hands it to the retry stage, which returns it, waits, or leaves
\* the loop.
P_BaseReturns(o) ==
    /\ pc[1] = "inflight"
    /\ pc' = [pc EXCEPT ![1] = "idle"]
    /\ IF isCircuitBreakerFailure(o)
       THEN /\ cb' = recordFailure(cb, now)
            /\ log' = Append(log, "F")
       ELSE /\ cb' = recordSuccess(cb)
            /\ log' = Append(log, "S")
    /\ events' = Append(events, "record")
    /\ P_Decide(o, callCount)
    /\ UNCHANGED <<rt, cancelled, callCount, now, innerCalls, roundTrips, lastRet,
                   probe, lastDone>>
    /\ UNCHANGED <<avars, tvars, requests, kvars, wvars, fvars>>

\* The backoff timer fires and the loop goes on to the next attempt.
P_WaitDone ==
    /\ rpc = "wait"
    /\ attempt' = attempt + 1
    /\ rpc' = "check"
    /\ events' = Append(events, "wait")
    /\ UNCHANGED <<rt, cancelled, callCount, got, ret>>
    /\ UNCHANGED <<bvars, avars, tvars, requests, kvars, wvars, fvars>>

\* The context is done during the backoff wait.
P_WaitCancelled ==
    /\ rpc = "wait"
    /\ cancelled
    /\ rpc' = "done"
    /\ ret' = ReturnErr(ErrCanceled)
    /\ UNCHANGED <<rt, attempt, cancelled, callCount, got>>
    /\ UNCHANGED <<bvars, avars, tvars, pvars, kvars, wvars, fvars>>

\* The caller cancels the request's context.
P_Cancel ==
    /\ apc = "inner"
    /\ rpc # "done"
    /\ ~cancelled
    /\ cancelled' = TRUE
    /\ UNCHANGED <<rt, attempt, rpc, callCount, got, ret>>
    /\ UNCHANGED <<bvars, avars, tvars, pvars, kvars, wvars, fvars>>

\* The retry stage has returned to the auth stage: an error is passed on,
\* a nil response with a nil error makes resp.StatusCode panic, a 401
\* invalidates the token; the logging stage passes the result on.
P_AuthFinish ==
    /\ apc = "inner"
    /\ rpc = "done"
    /\ agot' = Outcome(ret.nilResp, ret.StatusCode, ret.err)
    /\ IF ret.err # NoErr
       THEN /\ aret' = Outcome(TRUE, 0, ret.err)
            /\ apc' = "done"
            /\ UNCHANGED invalidateCount
       ELSE IF ret.nilResp
       THEN /\ apc' = "panic"
            /\ UNCHANGED <<aret, invalidateCount>>
       ELSE /\ invalidateCount' =
                  IF isUnauthorized(ret.StatusCode) THEN invalidateCount + 1
                  ELSE invalidateCount
            /\ aret' = Outcome(FALSE, ret.StatusCode, NoErr)
            /\ apc' = "done"
    /\ UNCHANGED <<at, heap, areq, orig, fwd, baseCalls>>
    /\ UNCHANGED <<bvars, rvars, tvars, pvars, kvars, wvars, fvars>>

\* The clock advances.
P_Tick ==
    /\ now < MaxTime
    /\ now' = now + 1
    /\ UNCHANGED <<cb, pc, innerCalls, roundTrips, lastRet, log, probe, lastDone>>
    /\ UNCHANGED <<rvars, avars, tvars, evars>>

PipelineNext ==
    \/ \E perr \in PipelineProviderAnswers : P_Start(perr)
    \/ P_Begin
    \/ \E o \in PipelineOutcomes : P_BaseReturns(o)
    \/ P_WaitDone
    \/ P_WaitCancelled
    \/ P_Cancel
    \/ P_AuthFinish
    \/ P_Tick

\* Sequential requests through the client's layered sender.
SpecPipeline == PipelineInit /\ [][PipelineNext]_vars

\* ----------------------------------------- auth stage over the provider
\* What the inner sender answers to a flow.
FlowOutcomes == {NetFail, Resp(200), Resp(401)}

\* expires_in of the tokens the identity endpoint issues to the flows: one
\* inside the expiry margin from the start, one valid throughout.
FlowExpiresIns == {60, LongValidity}

\* An Invalidate that drops the stored token only if it is the one the
\* rejected request was sent with.
AfterInvalidate_onlyheld(cached, sentWith) ==
    IF cached = sentWith THEN NoToken ELSE cached

\* p.cachedToken after Invalidate(), called for a request sent with sentWith.
AfterInvalidate(cached, sentWith) == NoToken

FlowsInit ==
    /\ BreakerIdle
    /\ RetryIdle
    /\ TokenIdle
    /\ AuthIdle
    /\ ExtraIdle

\* A flow enters AuthTransport.RoundTrip and GetToken runs its read-locked
\* fast path (RLock waits while a writer holds p.mu): on a hit the token
\* is returned and the request is cloned, given its headers and handed to
\* the inner sender; on a miss the flow goes on to p.mu.Lock().
FlowStart(f) ==
    /\ fpc[f] = "idle"
    /\ mu = 0
    /\ fstarts < MaxFlowStarts
    /\ fstarts' = fstarts + 1
    /\ IF cacheHit(cachedToken, clock)
       THEN /\ held' = [held EXCEPT ![f] = cachedToken]
            /\ fpc' = [fpc EXCEPT ![f] = "sent"]
       ELSE /\ fpc' = [fpc EXCEPT ![f] = "locking"]
            /\ UNCHANGED held
    /\ UNCHANGED <<clock, cachedToken, mu, tpc, seen, since, fetchCount, calls,
                   returns, invalidations, last>>
    /\ UNCHANGED <<bvars, rvars, avars, pvars, kvars, wvars>>

\* p.mu.Lock() is granted and the double-check runs: send the request
\* with the token a racing flow stored, or keep the lock and send the
\* token request.
FlowLocked(f) ==
    /\ fpc[f] = "locking"
    /\ mu = 0
    /\ IF cacheHitLocked(cachedToken, clock)
       THEN /\ held' = [held EXCEPT ![f] = cachedToken]
            /\ fpc' = [fpc EXCEPT ![f] = "sent"]
            /\ UNCHANGED <<mu, fetchCount>>
       ELSE /\ mu' = f
            /\ fetchCount' = fetchCount + 1
            /\ fpc' = [fpc EXCEPT ![f] = "fetching"]
            /\ UNCHANGED held
    /\ UNCHANGED <<clock, cachedToken, tpc, seen, since, calls, returns,
                   invalidations, last, fstarts>>
    /\ UNCHANGED <<bvars, rvars, avars, pvars, kvars, wvars>>

\* fetchToken succeeds with expires_in = e: the token is stored, the
\* deferred Unlock runs, and the request is sent with it.
FlowFetchOK(f, e) ==
    /\ fpc[f] = "fetching"
    /\ LET token == Token(fetchCount, e, clock, invalidations) IN
          /\ cachedToken' = token
          /\ held' = [held EXCEPT ![f] = token]
    /\ mu' = 0
    /\ fpc' = [fpc EXCEPT ![f] = "sent"]
    /\ UNCHANGED <<clock, tpc, seen, since, fetchCount, calls, returns,
                   invalidations, last, fstarts>>
    /\ UNCHANGED <<bvars, rvars, avars, pvars, kvars, wvars>>

\* fetchToken fails: GetToken returns the error, the deferred Unlock runs,
\* and RoundTrip returns the wrapped error without sending.
FlowFetchFails(f, err) ==
    /\ fpc[f] = "fetching"
    /\ mu' = 0
    /\ fpc' = [fpc EXCEPT ![f] = "idle"]
    /\ UNCHANGED <<clock, cachedToken, tpc, seen, since, fetchCount, calls, returns,
                   invalidations, last, held, fstarts>>
    /\ UNCHANGED <<bvars, rvars, avars, pvars, kvars, wvars>>

\* The inner sender answers a flow: on a 401 RoundTrip calls Invalidate,
\* otherwise it returns.
FlowReturns(f, o) ==
    /\ fpc[f] = "sent"
    /\ fpc' = [fpc EXCEPT ![f] =
                 IF o.err = NoErr /\ isUnauthorized(o.StatusCode)
                 THEN "invalidating" ELSE "idle"]
    /\ UNCHANGED <<held, fstarts, tvars>>
    /\ UNCHANGED <<bvars, rvars, avars, pvars, kvars, wvars>>

\* Invalidate is granted p.mu: the stored token is dropped, and RoundTrip
\* returns the 401 response.
FlowInvalidate(f) ==
    /\ fpc[f] = "invalidating"
    /\ mu = 0
    /\ cachedToken' = AfterInvalidate(cachedToken, held[f])
    /\ invalidations' = invalidations + 1
    /\ fpc' = [fpc EXCEPT ![f] = "idle"]
    /\ UNCHANGED <<held, fstarts>>
    /\ UNCHANGED <<clock, mu, tpc, seen, since, fetchCount, calls, returns, last>>
    /\ UNCHANGED <<bvars, rvars, avars, pvars, kvars, wvars>>

FlowsNext ==
    \/ \E f \in Flows : FlowStart(f)
    \/ \E f \in Flows : FlowLocked(f)
    \/ \E f \in Flows : \E e \in FlowExpiresIns : FlowFetchOK(f, e)
    \/ \E f \in Flows : \E err \in FetchErrors : FlowFetchFails(f, err)
    \/ \E f \in Flows : \E o \in FlowOutcomes : FlowReturns(f, o)
    \/ \E f \in Flows : FlowInvalidate(f)

\* Concurrent requests through one AuthTransport over one OAuth2Provider.
SpecFlows == FlowsInit /\ [][FlowsNext]_vars

\* ---------------------------------------------------------- bbpix.Client
ClientInit ==
    /\ BreakerIdle
    /\ RetryIdle
    /\ TokenIdle
    /\ AuthIdle
    /\ ExtraIdle

\* An accessor that enters without waiting for Client.mu.
AccessorLock_nolock(g, a) ==
    /\ kpc[g].at = "idle"
    /\ kcalls < MaxAccessorCalls
    /\ cmu' = g
    /\ kpc' = [kpc EXCEPT ![g] = [in |-> a, at |-> "locked"]]
    /\ kcalls' = kcalls + 1
    /\ UNCHANGED <<client, built, kret>>
    /\ UNCHANGED <<Components, pvars, wvars, fvars>>

\* PIX() or PIXAuto() is called and c.mu.Lock() is granted.
AccessorLock(g, a) ==
    /\ kpc[g].at = "idle"
    /\ cmu = 0
    /\ kcalls < MaxAccessorCalls
    /\ cmu' = g
    /\ kpc' = [kpc EXCEPT ![g] = [in |-> a, at |-> "locked"]]
    /\ kcalls' = kcalls + 1
    /\ UNCHANGED <<client, built, kret>>
    /\ UNCHANGED <<Components, pvars, wvars, fvars>>

\* if c.pixClient == nil: go on to construct; otherwise return the stored
\* instance and run the deferred Unlock.
AccessorCheck(g) ==
    /\ kpc[g].at = "locked"
    /\ LET a == kpc[g].in IN
          IF client[a] = 0
          THEN /\ kpc' = [kpc EXCEPT ![g] = [in |-> a, at |-> "building"]]
               /\ UNCHANGED <<cmu, kret>>
          ELSE /\ kret' = [kret EXCEPT ![a] = @ \cup {client[a]}]
               /\ kpc' = [kpc EXCEPT ![g] = [in |-> "none", at |-> "idle"]]
               /\ cmu' = 0
    /\ UNCHANGED <<client, built, kcalls>>
    /\ UNCHANGED <<Components, pvars, wvars, fvars>>

\* c.pixClient = pix.NewClient(...): the new instance is stored and
\* returned, and the deferred Unlock runs.
AccessorStore(g) ==
    /\ kpc[g].at = "building"
    /\ LET a == kpc[g].in IN
          /\ built' = [built EXCEPT ![a] = @ + 1]
          /\ client' = [client EXCEPT ![a] = built[a] + 1]
          /\ kret' = [kret EXCEPT ![a] = @ \cup {built[a] + 1}]
    /\ kpc' = [kpc EXCEPT ![g] = [in |-> "none", at |-> "idle"]]
    /\ cmu' = 0
    /\ UNCHANGED kcalls
    /\ UNCHANGED <<Components, pvars, wvars, fvars>>

ClientNext ==
    \/ \E g \in ClientGoroutines : \E a \in Accessors : AccessorLock(g, a)
    \/ \E g \in ClientGoroutines : AccessorCheck(g)
    \/ \E g \in ClientGoroutines : AccessorStore(g)

\* One Client whose accessors are called by concurrent goroutines.
SpecClient == ClientInit /\ [][ClientNext]_vars

\* ================================================================ claims
\* Steps of the breaker, read off the variables they change.
StartStep == roundTrips' = roundTrips + 1
Admitted == innerCalls' = innerCalls + 1 /\ \E f \in Flows : pc[f] = "idle" /\ pc'[f] = "inflight"
Rejected ==
    /\ innerCalls' = innerCalls
    /\ pc' = pc
    /\ lastRet'.nilResp /\ lastRet'.err = ErrCircuitOpen
RecordStep == \E f \in Flows : pc[f] = "inflight" /\ pc'[f] = "idle" /\ lastRet'.flow = f
RecordedFailure == RecordStep /\ Len(log') = Len(log) + 1 /\ log'[Len(log')] = "F"
RecordedSuccess == RecordStep /\ Len(log') = Len(log) + 1 /\ log'[Len(log')] = "S"
WithinTimeout == now - cb.lastFailTime <= cb.resetTimeout

\* C1: a RoundTrip started while the breaker is open and no more than
\* resetTimeout has elapsed since the last recorded failure returns
\* ErrCircuitOpen and leaves the inner sender's call count unchanged.
C1_OpenFailsFast ==
    [][(StartStep /\ cb.state = stateOpen /\ WithinTimeout) => Rejected]_vars

\* Threshold 3: three failing calls, then a fourth that is rejected with the
\* inner call count still 3.
C1_Witness ==
    /\ cb.maxFailures = 3 /\ log = <<"F", "F", "F">>
    /\ cb.state = stateOpen /\ roundTrips = 4 /\ innerCalls = 3
    /\ lastRet.err = ErrCircuitOpen

\* C2 as stated: after an open breaker's resetTimeout has elapsed the next
\* call reaches the inner sender; if it succeeds the breaker is closed and
\* the following call reaches the inner sender; if it fails the breaker is
\* open and the following call is rejected with ErrCircuitOpen.
C2_RecoveryAsStated ==
    [][/\ (StartStep /\ cb.state = stateOpen /\ ~WithinTimeout) => Admitted
       /\ (RecordStep /\ lastDone'[2] = "probeOK") => cb'.state = stateClosed
       /\ (StartStep /\ cb.state = stateClosed) => Admitted
       /\ (RecordStep /\ lastDone'[2] = "probeFail") => cb'.state = stateOpen
       /\ (StartStep /\ lastDone[2] = "probeFail") => Rejected]_vars

\* C2, amended: as above, but the call that follows a failed probe is
\* rejected when it starts no more than resetTimeout after that failure.
C2_Recovery ==
    [][/\ (StartStep /\ cb.state = stateOpen /\ ~WithinTimeout) => Admitted
       /\ (RecordStep /\ lastDone'[2] = "probeOK") => cb'.state = stateClosed
       /\ (StartStep /\ cb.state = stateClosed) => Admitted
       /\ (RecordStep /\ lastDone'[2] = "probeFail") => cb'.state = stateOpen
       /\ (StartStep /\ lastDone[2] = "probeFail" /\ WithinTimeout) => Rejected]_vars

\* A probe failed and the call after it was rejected.
C2_Witness ==
    /\ lastDone = <<"probeFail", "rejected">>
    /\ cb.state = stateOpen /\ lastRet.err = ErrCircuitOpen

\* C3: while the breaker is half-open and the probe's outcome has not been
\* recorded, no further request reaches the inner sender.
C3_SingleProbe ==
    [][(cb.state = stateHalfOpen /\ probe # 0) => innerCalls' = innerCalls]_vars

\* C4: every recorded success resets the failure counter to zero, and the
\* breaker goes from closed to open only when the latest maxFailures
\* recorded outcomes are all failures.
C4_ConsecutiveFailures ==
    [][/\ RecordedSuccess => cb'.failureCount = 0
       /\ (cb.state = stateClosed /\ cb'.state = stateOpen) =>
             /\ Len(log') >= cb.maxFailures
             /\ \A i \in 1..Len(log') :
                   i > Len(log') - cb.maxFailures => log'[i] = "F"]_vars

\* Threshold 3: fail, fail, success, fail, fail leaves the breaker closed.
C4_Witness ==
    /\ cb.maxFailures = 3 /\ log = <<"F", "F", "S", "F", "F">>
    /\ cb.state = stateClosed /\ cb.failureCount = 2

\* C5: the breaker state changes only closed -> open (a recorded failure
\* brings the counter to the threshold), open -> half-open (a call attempt
\* made after resetTimeout has elapsed since the last failure), half-open ->
\* closed (a recorded success) and half-open -> open (a recorded failure).
C5_Transitions ==
    [][cb'.state # cb.state =>
         \/ /\ cb.state = stateClosed /\ cb'.state = stateOpen
            /\ RecordedFailure /\ cb'.failureCount >= cb.maxFailures
         \/ /\ cb.state = stateOpen /\ cb'.state = stateHalfOpen
            /\ StartStep /\ ~WithinTimeout
         \/ /\ cb.state = stateHalfOpen /\ cb'.state = stateClosed
            /\ RecordedSuccess
         \/ /\ cb.state = stateHalfOpen /\ cb'.state = stateOpen
            /\ RecordedFailure]_vars

\* The breaker has been opened, probed and closed again while another flow
\* is in flight.
C5_Witness ==
    /\ lastDone[2] = "probeOK" /\ cb.state = stateClosed
    /\ \E f \in Flows : pc[f] = "inflight"

\* ------------------------------------------------ retry transport claims
Idempotent == rt.method \in {"GET", "HEAD", "OPTIONS", "PUT", "DELETE"}
\* A retryable outcome in the words of the spec: a transport error, or a
\* response with status 429, 502, 503 or 504.
RetryableOutcome(o) ==
    \/ o.nilResp /\ o.err # NoErr
    \/ ~o.nilResp /\ o.err = NoErr /\ o.StatusCode \in {429, 502, 503, 504}
\* RoundTrip returned what attempt number n obtained, as it was.
ReturnedAsIs(n) ==
    /\ ret.nilResp = got[n].nilResp /\ ret.StatusCode = got[n].StatusCode
    /\ ret.err = got[n].err
    /\ ~got[n].nilResp => ret.from = n

\* C6 as stated: for a non-idempotent method the inner sender is invoked
\* exactly once and that attempt's response or error is returned as is,
\* whatever the outcome and whatever maxRetries is.
C6_NoRetryAsStated ==
    (rpc = "done" /\ ~Idempotent) => (callCount = 1 /\ Len(got) = 1 /\ ReturnedAsIs(1))

\* C6, amended: for a non-idempotent method the inner sender is invoked at
\* most once; when maxRetries >= 0 and the context was not cancelled before
\* the attempt it is invoked exactly once and that attempt's response or
\* error is returned as is; otherwise it is not invoked at all and
\* RoundTrip returns the context's error (context cancelled) or (nil, nil)
\* (maxRetries < 0).
C6_NoRetry ==
    ~Idempotent =>
        /\ callCount <= 1
        /\ rpc = "done" =>
              IF callCount = 1 THEN Len(got) = 1 /\ ReturnedAsIs(1)
              ELSE IF rt.maxRetries < 0 THEN ret = ReturnErr(NoErr)
              ELSE cancelled /\ ret = ReturnErr(ErrCanceled)

\* A POST with retries to spare got a transport error, returned after one
\* attempt.
C6_Witness ==
    /\ rpc = "done" /\ rt.method = "POST" /\ rt.maxRetries >= 1
    /\ callCount = 1 /\ ret.err = ErrNetwork

\* C7: an idempotent request whose every attempt ends in a retryable
\* outcome is attempted exactly maxRetries + 1 times and then fails with
\* the retries-exhausted error wrapping the last failure.
C7_Exhaustion ==
    (/\ rpc = "done" /\ Idempotent /\ rt.maxRetries >= 0
     /\ ret.err # ErrCanceled
     /\ \A i \in 1..Len(got) : RetryableOutcome(got[i]))
    => /\ callCount = rt.maxRetries + 1
       /\ ret.nilResp
       /\ Len(ret.err) >= 1 /\ ret.err[1] = "max retries exceeded"

\* C8: for an idempotent request whose first N-1 attempts end in a
\* retryable outcome and whose N-th attempt succeeds, RoundTrip returns the
\* N-th response with no error after exactly N inner invocations (N <=
\* maxRetries + 1), and every body obtained in attempts 1..N-1 is closed.
C8_SuccessAfterRetries ==
    \A n \in 1..Len(got) :
        (/\ Idempotent
         /\ ~got[n].nilResp /\ got[n].err = NoErr
         /\ got[n].StatusCode >= 200 /\ got[n].StatusCode < 300
         /\ \A i \in 1..(n - 1) : RetryableOutcome(got[i]))
        => /\ rpc = "done" /\ callCount = n /\ Len(got) = n
           /\ n <= rt.maxRetries + 1
           /\ ret = [nilResp |-> FALSE, StatusCode |-> got[n].StatusCode,
                     err |-> NoErr, from |-> n]
           /\ \A i \in 1..(n - 1) : got[i].body # "open"

\* GET: a 503 with a body, a transport error, then 200 on the third attempt.
C8_Witness ==
    /\ rpc = "done" /\ rt.method = "GET" /\ callCount = 3 /\ Len(got) = 3
    /\ got[1].StatusCode = 503 /\ got[1].body = "closed"
    /\ got[2].err = ErrNetwork
    /\ ret.StatusCode = 200 /\ ret.err = NoErr /\ ret.from = 3

\* C9: for an idempotent request, an attempt that returns a response whose
\* status is not 429, 502, 503 or 504 ends the call: that response is
\* returned with no error and the inner sender is not invoked again.
C9_NonRetryableEnds ==
    \A n \in 1..Len(got) :
        (/\ Idempotent
         /\ ~got[n].nilResp /\ got[n].err = NoErr
         /\ got[n].StatusCode \notin {429, 502, 503, 504})
        => /\ rpc = "done" /\ callCount = n /\ Len(got) = n
           /\ ret = [nilResp |-> FALSE, StatusCode |-> got[n].StatusCode,
                     err |-> NoErr, from |-> n]

\* PUT: the second attempt got a 500, which was returned although a retry
\* was left.
C9_Witness ==
    /\ rpc = "done" /\ rt.method = "PUT" /\ rt.maxRetries = 2
    /\ callCount = 2 /\ Len(got) = 2 /\ got[2].StatusCode = 500
    /\ ret.StatusCode = 500 /\ ret.err = NoErr

\* C10: once the context is cancelled before an attempt or during a
\* backoff wait, the inner sender is not invoked again for the request and
\* RoundTrip returns the context's cancellation error.
C10_Cancellation ==
    [][(/\ cancelled
        /\ \/ rpc = "check" /\ attempt <= rt.maxRetries
           \/ rpc = "wait")
       => /\ callCount' = callCount
          /\ rpc' = "done" => ret' = ReturnErr(ErrCanceled)]_vars

\* Cancelled after the first attempt with retries left: RoundTrip returned
\* the context's error after that one attempt.
C10_Witness ==
    /\ rpc = "done" /\ cancelled /\ ret = ReturnErr(ErrCanceled)
    /\ callCount = 1 /\ rt.maxRetries = 2

\* C11: every RoundTrip of the retry transport ends with exactly one of a
\* non-nil response and a non-nil error, never with both nil, for every
\* maxRetries NewRetryTransport accepts and every run of inner outcomes in
\* which each inner call itself returned a response or an error.
C11_ResponseOrError ==
    (/\ rpc = "done"
     /\ \A i \in 1..Len(got) : ~(got[i].nilResp /\ got[i].err = NoErr))
    => ret.nilResp = (ret.err # NoErr)

\* ------------------------------------------------- token provider claims
\* Seconds of validity tok has left at time t, and the 5-minute margin.
Remaining(tok, t) == (tok.IssuedAt + tok.ExpiresIn) - t
Valid(tok, t) == tok # NoToken /\ Remaining(tok, t) >= 300

ReturnStep == returns' = returns + 1
FastStep(c) ==
    /\ tpc[c] = "idle" /\ calls' = calls + 1
    /\ tpc'[c] = "locking" \/ (ReturnStep /\ last'.caller = c)
LockStep(c) == tpc[c] = "locking" /\ tpc'[c] # "locking"
GetTokenStep == \E c \in Callers : FastStep(c) \/ LockStep(c)
InvalidateStep == invalidations' = invalidations + 1

\* C12: when callers race on an empty or expired cache and the identity
\* endpoint answers with a long-lived credential, that fetch stays the only
\* one: no fetch is made after it, the fetcher stores and returns the
\* credential, and every caller that had missed the fast path returns that
\* same credential without fetching.
C12_SingleFetch ==
    /\ []((cachedToken # NoToken /\ cachedToken.ExpiresIn = LongValidity)
             => fetchCount = cachedToken.id)
    /\ [][/\ (ReturnStep /\ last'.path = "fetched" /\ last'.err = NoErr)
                => cachedToken' = last'.token
          /\ (ReturnStep /\ cachedToken # NoToken
                /\ cachedToken.ExpiresIn = LongValidity)
                => /\ last'.token = cachedToken /\ last'.err = NoErr
                   /\ fetchCount' = fetchCount]_vars

\* Both callers raced on the empty cache: one fetched, the other found the
\* fetched credential in its double-check.
C12_Witness ==
    /\ calls = NumCallers /\ returns = NumCallers /\ fetchCount = 1
    /\ invalidations = 0
    /\ last.path = "recheck" /\ last.token.id = 1
    /\ last.token.ExpiresIn = LongValidity

\* C13 as stated: every credential GetToken returns without error is not
\* expired under the 5-minute margin when it is returned, whether it came
\* from the cache or was just fetched, whatever expires_in was.
C13_ValidAsStated ==
    [][(ReturnStep /\ last'.err = NoErr) => Valid(last'.token, clock')]_vars

\* C13 amended: a credential returned from the cache (fast path or
\* double-check) is not expired under the 5-minute margin at return; a
\* just-fetched credential is returned as issued, and is valid under the
\* margin exactly when its expires_in is at least 300 seconds.
C13_Valid ==
    [][(ReturnStep /\ last'.err = NoErr)
         => IF last'.path = "fetched"
            THEN Valid(last'.token, clock') = (last'.token.ExpiresIn >= 300)
            ELSE Valid(last'.token, clock')]_vars

C13_Witness ==
    /\ last.err = NoErr /\ last.path = "fetched"
    /\ last.token.ExpiresIn < 300 /\ cachedToken = last.token

\* C14: while the cached credential has at least 5 minutes of validity
\* left, no fetch is started, and every GetToken step returns that same
\* credential without error and leaves the cache as it is.
C14_CacheHit ==
    [][(cachedToken # NoToken /\ Remaining(cachedToken, clock) >= 300)
         => /\ fetchCount' = fetchCount
            /\ GetTokenStep
                 => /\ ReturnStep
                    /\ last'.token = cachedToken /\ last'.err = NoErr
                    /\ cachedToken' = cachedToken]_vars

\* A credential returned from the cache with exactly the margin left.
C14_Witness ==
    /\ last.path = "cached" /\ last.err = NoErr
    /\ cachedToken = last.token
    /\ last.token.IssuedAt < clock
    /\ Remaining(last.token, clock) = 300

\* C15: a cached credential with less than 5 minutes left is treated as
\* expired: GetToken does not return it from either check, the caller that
\* finds it still stored under the write lock sends one token request, a
\* successful fetch stores the new credential in place of the old and
\* returns it, and a caller that saw the old credential expired never gets
\* it back.
C15_Refresh ==
    [][\A c \in Callers :
         LET stale == cachedToken # NoToken /\ Remaining(cachedToken, clock) < 300 IN
         /\ (FastStep(c) /\ stale) => (tpc'[c] = "locking" /\ ~ReturnStep)
         /\ (LockStep(c) /\ stale)
              => /\ fetchCount' = fetchCount + 1
                 /\ tpc'[c] = "fetching" /\ ~ReturnStep
         /\ (tpc[c] = "fetching" /\ ReturnStep /\ last'.err = NoErr)
              => /\ cachedToken' = last'.token
                 /\ last'.token.id = fetchCount
                 /\ last'.token.id # cachedToken.id
         /\ (ReturnStep /\ last'.caller = c /\ last'.err = NoErr
               /\ last'.path # "cached" /\ seen[c] # 0)
              => last'.token.id > seen[c]]_vars

\* A caller saw a stored credential past the margin, fetched, and the new
\* credential is in the cache.
C15_Witness ==
    \E c \in Callers :
       /\ last.caller = c /\ last.path = "fetched" /\ last.err = NoErr
       /\ seen[c] # 0 /\ last.token.id > seen[c]
       /\ cachedToken = last.token

\* C16: Invalidate leaves the cache unset, and a GetToken call that begins
\* after an Invalidate has returned gets a credential fetched after that
\* Invalidate, never an invalidated one, however the calls interleave.
C16_Invalidate ==
    /\ [][InvalidateStep => cachedToken' = NoToken]_vars
    /\ [][(ReturnStep /\ last'.err = NoErr)
            => last'.token.epoch >= since'[last'.caller]]_vars

\* A credential was fetched, served from the cache and invalidated, and a
\* call that began after the Invalidate fetched anew.
C16_Witness ==
    \E c \in Callers :
       /\ invalidations = 1 /\ last.caller = c /\ since[c] = 1
       /\ last.err = NoErr /\ last.path = "fetched"
       /\ last.token.id = 2 /\ last.token.epoch = 1
       /\ seen[c] = 0 /\ fetchCount = 2
       /\ calls = 3 /\ returns = 3

\* ------------------------------------------------- auth transport claims
Got401 == baseCalls = 1 /\ ~agot.nilResp /\ agot.err = NoErr /\ agot.StatusCode = 401

\* C17: when the inner sender answers 401, RoundTrip has called Invalidate
\* exactly once, returns that response unchanged with no error and has not
\* sent again; after any other inner outcome, and before the inner sender
\* has answered, Invalidate has not been called.
C17_Invalidate401 ==
    IF apc = "done" /\ Got401
    THEN /\ invalidateCount = 1
         /\ aret = agot /\ aret.err = NoErr /\ aret.StatusCode = 401
         /\ baseCalls = 1
    ELSE invalidateCount = 0

C17_Witness ==
    /\ apc = "done" /\ agot = Resp(401)
    /\ invalidateCount = 1 /\ aret.StatusCode = 401

\* C18: when the token provider fails, RoundTrip returns no response and
\* an error whose cause chain is the provider's error under one wrapping
\* layer, and the inner sender is never invoked.
C18_TokenError ==
    at.err # NoErr
    => /\ baseCalls = 0 /\ fwd = 0
       /\ apc = "done"
            => /\ aret.nilResp
               /\ Len(aret.err) = Len(at.err) + 1
               /\ SubSeq(aret.err, 2, Len(aret.err)) = at.err

C18_Witness ==
    /\ apc = "done" /\ Len(at.err) = 2
    /\ aret.nilResp /\ aret.err[1] = "failed to get auth token"
    /\ aret.err[3] = at.err[2]

\* C19: RoundTrip leaves the caller's request as it was: its Header is the
\* same map with the same entries as at the call, and the request handed
\* to the inner sender has a Header of its own.
C19_CallerRequestUntouched ==
    /\ areq.Header = 1
    /\ heap[areq.Header] = orig
    /\ fwd # 0 => fwd # areq.Header

\* The credential headers are on the forwarded request only.
C19_Witness ==
    /\ apc = "done" /\ fwd # 0
    /\ "Authorization" \notin DOMAIN heap[areq.Header]
    /\ "Gw-Dev-App-Key" \notin DOMAIN heap[areq.Header]
    /\ "Content-Type" \in DOMAIN heap[areq.Header]
    /\ {"Authorization", "Gw-Dev-App-Key"} \subseteq DOMAIN heap[fwd]

Forwarded == heap[fwd]
CarriesCredentials ==
    /\ {"Authorization", "Gw-Dev-App-Key"} \subseteq DOMAIN Forwarded
    /\ Forwarded["Authorization"] =
          <<at.token.TokenType \o " " \o at.token.AccessToken>>
    /\ Forwarded["Gw-Dev-App-Key"] = <<at.developerAppKey>>

\* C20 as stated: every request handed to the inner sender carries
\* Authorization = "<token type> <access token>" of the credential obtained
\* for the call and gw-dev-app-key = the configured key, and keeps every
\* header the caller had set.
C20_HeadersAsStated ==
    fwd # 0
    => /\ CarriesCredentials
       /\ \A k \in DOMAIN orig : k \in DOMAIN Forwarded /\ Forwarded[k] = orig[k]

\* C20 amended: every request handed to the inner sender carries the two
\* credential headers with exactly those values, replacing any value the
\* caller had set for Authorization or gw-dev-app-key, and keeps every
\* other header the caller had set.
C20_Headers ==
    fwd # 0
    => /\ CarriesCredentials
       /\ \A k \in DOMAIN orig \ {"Authorization", "Gw-Dev-App-Key"} :
             k \in DOMAIN Forwarded /\ Forwarded[k] = orig[k]
       /\ DOMAIN Forwarded = DOMAIN orig \cup {"Authorization", "Gw-Dev-App-Key"}

\* A caller-set Authorization was replaced and the other headers kept.
C20_Witness ==
    /\ fwd # 0 /\ at.token.TokenType = "MAC"
    /\ {"Authorization", "Accept"} \subseteq DOMAIN orig
    /\ Forwarded["Authorization"] = <<"MAC t0">>
    /\ Forwarded["Authorization"] # orig["Authorization"]
    /\ Forwarded["Accept"] = orig["Accept"]

\* ------------------------------------------ token provider claims, cont.
Fetching == {c \in Callers : tpc[c] = "fetching"}
\* The latest GetToken return was a successful fetch by a caller other than c.
AfterFetchByOther(c) ==
    last.path = "fetched" /\ last.err = NoErr /\ last.caller # c
Reuses == ReturnStep /\ last'.token = cachedToken /\ fetchCount' = fetchCount
FetchFailStep == ReturnStep /\ last'.path = "fetched" /\ last'.err # NoErr

\* C25 as stated: at most one token fetch is in flight at any moment, and
\* a caller that acquires the write lock after another caller's successful
\* fetch reuses the stored credential instead of fetching.
C25_SerializedAsStated ==
    /\ [](Cardinality(Fetching) <= 1)
    /\ [][\A c \in Callers : (LockStep(c) /\ AfterFetchByOther(c)) => Reuses]_vars

\* C25 amended: at most one token fetch is in flight at any moment, held
\* by the owner of the write lock; a caller that acquires the lock after
\* another caller's successful fetch reuses the stored credential when it
\* is still stored and not expired under the 5-minute margin, and
\* otherwise sends a token request of its own.
C25_Serialized ==
    /\ [](/\ Cardinality(Fetching) <= 1
          /\ \A c \in Callers : (tpc[c] = "fetching") = (mu = c))
    /\ [][\A c \in Callers :
            (LockStep(c) /\ AfterFetchByOther(c))
            => IF cachedToken = last.token /\ Valid(cachedToken, clock)
               THEN Reuses
               ELSE /\ ~ReturnStep /\ tpc'[c] = "fetching"
                    /\ fetchCount' = fetchCount + 1]_vars

\* After a refresh of an expired credential by one caller, the other
\* caller took the lock and reused the refreshed credential.
C25_Witness ==
    /\ fetchCount = 2 /\ invalidations = 0
    /\ last.path = "recheck" /\ last.token.id = 2
    /\ cachedToken = last.token
    /\ \E c \in Callers : last.caller = c /\ seen[c] = 1

\* C26 as stated: after a GetToken call whose fetch failed, the cache
\* holds no credential, whatever it held before; the call returns the
\* error and no credential.
C26_FailedFetchAsStated ==
    [][FetchFailStep
         => /\ cachedToken' = NoToken
            /\ last'.token = NoToken /\ last'.err \in FetchErrors]_vars

\* C26 amended: a GetToken call whose fetch failed returns the error and
\* no credential and leaves the cache as it was before the call: unset, or
\* still holding the credential that had expired under the margin.
C26_FailedFetch ==
    [][FetchFailStep
         => /\ cachedToken' = cachedToken
            /\ cachedToken' = NoToken \/ ~Valid(cachedToken', clock')
            /\ last'.token = NoToken /\ last'.err \in FetchErrors]_vars

\* A failed refresh left the expired credential in the cache.
C26_Witness ==
    /\ last.path = "fetched" /\ last.err \in FetchErrors
    /\ last.token = NoToken
    /\ cachedToken # NoToken /\ cachedToken.id = 1 /\ fetchCount = 2

\* ----------------------------------------------------------- client claims
\* C24: PIX() and PIXAuto() each construct their sub-client at most once
\* and return one and the same instance on every call, however the calls
\* of concurrent goroutines interleave.
C24_Singleton ==
    \A a \in Accessors :
       /\ built[a] <= 1
       /\ kret[a] \subseteq {1}
       /\ client[a] = built[a]

\* Both accessors have been called more than once and all calls are over.
C24_Witness ==
    /\ kcalls = MaxAccessorCalls
    /\ \A g \in ClientGoroutines : kpc[g].at = "idle"
    /\ \A a \in Accessors : built[a] = 1 /\ kret[a] = {1}

\* ---------------------------------------------- breaker classification
\* C27: the breaker records an inner outcome as a failure exactly when
\* the inner call returned an error, no response, or a status in 500..599;
\* every other outcome, 4xx included, is recorded as a success, which
\* resets the failure counter and does not open the circuit.
C27_Classification ==
    [][RecordStep
         => IF \/ lastRet'.err # NoErr
               \/ lastRet'.nilResp
               \/ lastRet'.StatusCode \in 500..599
            THEN /\ RecordedFailure
                 /\ cb'.failureCount = cb.failureCount + 1
            ELSE /\ RecordedSuccess
                 /\ cb'.failureCount = 0
                 /\ cb'.state = stateClosed]_vars

\* A 404 recorded right after a failure reset the counter.
C27_Witness ==
    /\ Len(log) >= 2 /\ log[Len(log) - 1] = "F" /\ log[Len(log)] = "S"
    /\ ~lastRet.nilResp /\ lastRet.StatusCode = 404 /\ lastRet.err = NoErr
    /\ cb.failureCount = 0 /\ cb.state = stateClosed /\ cb.maxFailures >= 2

\* ---------------------------------------------------------- backoff claims
\* initial_backoff * 2^k
Nominal(k) == bo.initialBackoff * Pow2(k)

\* C29 as stated: the wait after failed attempt k lies between 0.75 and
\* 1.25 times initial_backoff * 2^k, and no wait is inserted after the last
\* permitted attempt.
C29_BackoffAsStated ==
    /\ \A i \in 1..Len(waits) :
          /\ 3 * Nominal(i - 1) <= 4 * waits[i]
          /\ 4 * waits[i] <= 5 * Nominal(i - 1)
    /\ Len(waits) <= bo.maxRetries
    /\ battempt > bo.maxRetries => Len(waits) = bo.maxRetries

\* C29 amended: for a non-negative initial_backoff the wait after failed
\* attempt k is a whole number of nanoseconds between 0.75 times
\* initial_backoff * 2^k rounded down and 1.25 times initial_backoff * 2^k,
\* so the nominal delay doubles with each attempt; no wait is inserted
\* after the last permitted attempt.
C29_Backoff ==
    /\ \A i \in 1..Len(waits) :
          /\ (3 * Nominal(i - 1)) \div 4 <= waits[i]
          /\ 4 * waits[i] <= 5 * Nominal(i - 1)
    /\ Len(waits) <= bo.maxRetries
    /\ battempt > bo.maxRetries => Len(waits) = bo.maxRetries

\* Two waits were inserted, the second from the doubled delay, and the
\* third attempt was the last.
C29_Witness ==
    /\ bo.initialBackoff = 10 /\ bo.maxRetries = 2 /\ battempt = 3
    /\ waits = <<7, 22>>

\* ------------------------------------------- auth stage / provider claims
\* The Invalidate that flow f's 401 caused takes effect.
Flow401(f) ==
    fpc[f] = "invalidating" /\ fpc'[f] = "idle"

\* C30 as stated: a 401 for a request sent with credential T discards only
\* T; a newer credential T2 that another flow has stored meanwhile stays
\* in the cache, so that the next GetToken returns it without a fetch.
C30_OnlyStaleAsStated ==
    [][\A f \in Flows :
         (Flow401(f) /\ cachedToken # NoToken /\ cachedToken # held[f])
         => cachedToken' = cachedToken]_vars

\* C30 amended: a 401 discards whatever credential the cache holds when
\* its Invalidate gets the lock, the newer credential T2 of another flow
\* included, and a GetToken that finds the cache emptied goes on to the
\* write lock and sends a token request.
C30_Unconditional ==
    [][\A f \in Flows :
         /\ Flow401(f) => (cachedToken' = NoToken /\ invalidations' = invalidations + 1)
         /\ (fpc[f] = "idle" /\ fpc'[f] # "idle" /\ cachedToken = NoToken)
               => fpc'[f] = "locking"
         /\ (fpc[f] = "locking" /\ fpc'[f] # "locking" /\ cachedToken = NoToken)
               => (fpc'[f] = "fetching" /\ fetchCount' = fetchCount + 1)]_vars

\* Flow 1 was sent with credential 1, flow 2 is in flight with credential
\* 2 fetched after its own 401, and flow 1's 401 has emptied the cache.
C30_Witness ==
    /\ fpc[1] = "idle" /\ held[1].id = 1
    /\ fpc[2] = "sent" /\ held[2].id = 2
    /\ invalidations = 2 /\ fetchCount = 2
    /\ cachedToken = NoToken

\* -------------------------------------------- composed pipeline claims
\* The retry stage makes an attempt / the base sender is invoked / the
\* base sender returns.
AttemptStep == callCount' = callCount + 1
BaseStep == innerCalls' = innerCalls + 1
BaseReturnStep == pc[1] = "inflight" /\ pc'[1] = "idle"

\* C21: for one logical request the credential is acquired once, before
\* the first attempt; every attempt of the retry stage goes through the
\* breaker's admission check (the base sender is invoked only for an
\* admitted attempt), and the outcome of every admitted attempt has been
\* recorded by the breaker before the next attempt starts.
C21_Layering ==
    /\ [](events # <<>> =>
            /\ events[1] = "token"
            /\ \A i \in 2..Len(events) : events[i] # "token")
    /\ [](pc[1] = "idle" => Len(log) = innerCalls)
    /\ [][/\ AttemptStep =>
               /\ events # <<>>
               /\ pc[1] = "idle"
               /\ roundTrips' = roundTrips + 1
               /\ cb' = canExecute(cb, now).cb
               /\ BaseStep <=> canExecute(cb, now).err = NoErr
          /\ BaseStep => AttemptStep
          /\ BaseReturnStep =>
               /\ Len(log') = Len(log) + 1
               /\ log'[Len(log')] = "F" <=> isCircuitBreakerFailure(got'[Len(got')])
               /\ cb' = IF log'[Len(log')] = "F"
                        THEN recordFailure(cb, now) ELSE recordSuccess(cb)]_vars

\* A request whose first attempt opened the circuit, whose second attempt
\* was rejected and whose third attempt was admitted as the probe.
C21_Witness ==
    /\ apc = "done"
    /\ events = <<"token", "admit", "record", "wait", "reject", "wait",
                  "admit", "record">>
    /\ innerCalls = 2
    /\ callCount = 3

\* The status codes the attempts of the current request obtained.
Statuses == [i \in 1..Len(got) |-> got[i].StatusCode]

\* The scenario of C22: the first request of a fresh client, a GET with
\* max_retries = 2 and breaker threshold 5 that nobody cancels, the base
\* sender answering 503, 503, 200 as far as it has been asked.
Scenario503 ==
    /\ requests = 1
    /\ rt = [maxRetries |-> 2, method |-> "GET"]
    /\ cb.maxFailures = defaultMaxFailures
    /\ ~cancelled
    /\ at.err = NoErr
    /\ \A i \in 1..Len(got) : got[i].err = NoErr /\ ~got[i].nilResp
    /\ Len(got) <= 3
    /\ Statuses = SubSeq(<<503, 503, 200>>, 1, Len(got))

\* C22: in that scenario the request does not end before the third
\* answer; the caller then receives the 200 response with no error, the
\* base sender has been invoked exactly 3 times, and each of the two
\* re-attempts came after a completed backoff wait.
C22_EndToEnd ==
    (Scenario503 /\ apc # "inner") =>
        /\ apc = "done"
        /\ Statuses = <<503, 503, 200>>
        /\ aret = Outcome(FALSE, 200, NoErr)
        /\ innerCalls = 3
        /\ callCount = 3
        /\ events = <<"token", "admit", "record", "wait", "admit", "record",
                      "wait", "admit", "record">>
        /\ cb.state = stateClosed /\ cb.failureCount = 0

\* The scenario has run to its end.
C22_Witness ==
    /\ Scenario503
    /\ apc = "done"
    /\ Statuses = <<503, 503, 200>>
    /\ aret.StatusCode = 200
    /\ innerCalls = 3

\* The breaker has just rejected the latest attempt of a request that is
\* still inside the pipeline.
JustRejected ==
    /\ apc = "inner"
    /\ events # <<>>
    /\ events[Len(events)] = "reject"

\* C23: a request that the open breaker rejects is returned to the caller
\* as the circuit-open error, without the retry stage waiting a backoff
\* delay or making a further attempt for it: after a rejection the retry
\* stage is done and returns exactly ErrCircuitOpen, and nothing else
\* happens for the request after the rejection.
C23_FailFast ==
    /\ JustRejected => (rpc = "done" /\ ret.err = ErrCircuitOpen)
    /\ \A i \in 1..Len(events) : events[i] = "reject" => i = Len(events)
    /\ (apc = "done" /\ events # <<>> /\ events[Len(events)] = "reject")
          => aret.err = ErrCircuitOpen

\* errors.Is(err, cause): cause is err or one of the errors err wraps.
Has(err, cause) ==
    /\ cause # NoErr
    /\ Len(cause) <= Len(err)
    /\ SubSeq(err, Len(err) - Len(cause) + 1, Len(err)) = cause

\* The latest attempt of the current request ended with an error.
LastAttemptFailed == got # <<>> /\ got[Len(got)].err # NoErr

\* C28 as stated: every error that the base sender, the breaker or the
\* token provider produced for a request is in the cause chain of the
\* error the caller receives for it.
C28_CauseKeptAsStated ==
    (apc = "done" /\ aret.err # NoErr) =>
        /\ at.err # NoErr => Has(aret.err, at.err)
        /\ \A i \in 1..Len(got) : got[i].err # NoErr => Has(aret.err, got[i].err)

\* C28 amended: the error the caller receives is the token provider's
\* error wrapped by the auth stage, or the context's error when the
\* request was cancelled, or else has the error of the last attempt (the
\* base sender's, or the breaker's ErrCircuitOpen) in its cause chain,
\* wrapped as retries exhausted or not; the errors of earlier attempts
\* are dropped.
C28_CauseKept ==
    apc = "done" =>
        /\ at.err # NoErr => Has(aret.err, at.err)
        /\ (at.err = NoErr /\ LastAttemptFailed) =>
              \/ Has(aret.err, got[Len(got)].err)
              \/ cancelled /\ aret.err = ErrCanceled
        /\ aret.err # NoErr =>
              \/ at.err # NoErr
              \/ cancelled /\ aret.err = ErrCanceled
              \/ LastAttemptFailed

\* The base sender failed, the circuit opened, the remaining attempts were
\* rejected, and the caller's error wraps ErrCircuitOpen only.
C28_Witness ==
    /\ apc = "done"
    /\ Len(got) = 3
    /\ got[1].err = ErrNetwork
    /\ got[3].err = ErrCircuitOpen
    /\ aret.err = WrapExhausted(ErrCircuitOpen)
    /\ ~Has(aret.err, ErrNetwork)

\* ------------------------------------------------ retry transport, bodies
\* C31: a response that RetryTransport.RoundTrip returns to its caller has
\* not had its body closed by the retry stage; the only bodies it closes
\* are those of responses it discards before making a further attempt.
C31_ReturnedBodyOpen ==
    /\ (rpc = "done" /\ ~ret.nilResp) => got[ret.from].body # "closed"
    /\ rpc = "done" =>
          \A i \in 1..Len(got) : got[i].body = "closed" => i < Len(got)

\* ------------------------------------------ circuit breaker, concurrency
\* C32: with a threshold of at least 1, under any interleaving of the
\* flows, a closed breaker has counted fewer failures than its threshold.
C32_ClosedBelowThreshold ==
    (cb.maxFailures >= 1 /\ cb.state = stateClosed)
        => cb.failureCount < cb.maxFailures

\* The breaker has recovered through a successful probe and, closed again,
\* has since counted one failure short of its threshold while another
\* flow is inside the inner sender.
C32_Witness ==
    /\ cb.state = stateClosed
    /\ cb.maxFailures >= 2
    /\ cb.failureCount = cb.maxFailures - 1
    /\ lastDone = <<"probeOK", "fail">>
    /\ \E f \in Flows : pc[f] = "inflight"

\* ---------------------------------------------- circuit breaker, recovery
\* C33: an open breaker does not reject for ever.  When calls keep
\* arriving, admitted calls return and time passes, an open breaker
\* eventually becomes half-open, in the very step that passes a call to
\* the inner sender; and a half-open breaker eventually closes unless the
\* inner sender fails again, the only way back to open.
C33_Recovers ==
    /\ (cb.state = stateOpen) ~> (cb.state = stateHalfOpen)
    /\ (cb.state = stateHalfOpen) ~> (cb.state = stateClosed \/ cb.state = stateOpen)
    /\ [][(cb.state = stateOpen /\ cb'.state = stateHalfOpen)
            => \E f \in Flows : pc[f] = "idle" /\ pc'[f] = "inflight"]_vars
    /\ [][(cb.state = stateHalfOpen /\ cb'.state = stateOpen)
            => \E f \in Flows : /\ pc[f] = "inflight" /\ pc'[f] = "idle"
                                /\ isCircuitBreakerFailure(lastRet')]_vars
    /\ [][cb.state = stateOpen => cb'.state # stateClosed]_vars

\* The breaker has been open, admitted a probe after the timeout, and
\* the probe's success has closed it again.
C33_Witness ==
    /\ cb.state = stateClosed
    /\ cb.failureCount = 0
    /\ lastDone = <<"rejected", "probeOK">>
    /\ now - cb.lastFailTime > cb.resetTimeout

\* ------------------------------------- composed pipeline, attempt budget
\* Attempts of the current request that reached the base sender.
Admits == Cardinality({i \in 1..Len(events) : events[i] = "admit"})

\* The breaker is open and the current request has had an attempt
\* admitted: the circuit opened in the middle of its retry sequence.
OpenedMidRequest ==
    /\ cb.state = stateOpen
    /\ \E i \in 1..Len(events) : events[i] = "admit"

\* The reset timeout has run out since the last recorded failure.
CooledDown == now - cb.lastFailTime > cb.resetTimeout

\* C34 as stated: a request causes at most max_retries + 1 invocations of
\* the base sender, and once the breaker has opened in the middle of the
\* request's retry sequence none of its remaining attempts reaches the
\* base sender.
C34_BudgetAsStated ==
    /\ [](rt.maxRetries >= 0 => Admits <= rt.maxRetries + 1)
    /\ [][(OpenedMidRequest /\ AttemptStep) => ~BaseStep]_vars

\* C34 amended: at most max_retries + 1 invocations of the base sender
\* per request; after the breaker has opened in the middle of the retry
\* sequence, a remaining attempt is rejected as long as the reset timeout
\* has not run out since the last failure, and an attempt made after that
\* is let through to the base sender as the half-open probe.
C34_Budget ==
    /\ [](rt.maxRetries >= 0 => Admits <= rt.maxRetries + 1)
    /\ [](rt.maxRetries < 0 => Admits = 0)
    /\ [][(OpenedMidRequest /\ AttemptStep /\ ~CooledDown)
            => (~BaseStep /\ cb' = cb /\ events' = Append(events, "reject"))]_vars
    /\ [][(OpenedMidRequest /\ AttemptStep /\ CooledDown)
            => (BaseStep /\ cb'.state = stateHalfOpen)]_vars

\* The first attempt of the first request opened the circuit, the backoff
\* wait outlasted the reset timeout, and the second attempt is inside the
\* base sender as the probe.
C34_Witness ==
    /\ requests = 1
    /\ cb.maxFailures = 1
    /\ events = <<"token", "admit", "record", "wait", "admit">>
    /\ cb.state = stateHalfOpen
    /\ pc[1] = "inflight"
    /\ innerCalls = 2
====
